---- MODULE Spec2Model ----
\* A model of the scam detector: the analysis core (src/lib/analyze.ts) with the
\* heuristic scorer analyzeHeuristically, computed on real character sequences, and
\* the orchestrator analyzeMessage with its single call to the remote classifier; the
\* POST handler in front of it (src/app/api/analyze/route.ts) with its rate limiter and
\* its validation; and the page's handleAnalyze (src/app/page.tsx) with its timer.
EXTENDS Integers, Sequences, FiniteSets, Bags, TLC

VARIABLES
    GEMINI_API_KEY,   \* process.env.GEMINI_API_KEY: "" when not configured
    pc,               \* position of the current analyzeMessage call
    message,          \* its argument
    remote,           \* the generateContent promise: "none", "pending", "rejected", "resolved"
    response,         \* the text the remote service answered with, << >> when none
    result,           \* the value the call returned (an object: field name -> JS value)
    path,             \* which branch produced the result: "none", "heuristic", "remote"
    remoteCalls,      \* generateContent calls issued by the current request
    heuristicCalls,   \* analyzeHeuristically runs of the current request
    console,          \* what the current request logged: sequence of "warn" / "error"
    ipRequestCounts,  \* route.ts: the rate limiter's Map, ip -> [count, resetTime]
    now,              \* route.ts: Date.now() as the handler last read it, in ms
    route,            \* position of the current POST: "idle", "parsing", "analyzing", "responded"
    ip,               \* the key the current POST is counted under
    body,             \* the text of its body, as tokens
    httpStatus,       \* the status of its response, 0 when none
    httpCode,         \* the code field of its error response, "" when none
    fetch,            \* page.tsx: the fetch of handleAnalyze: "none", "pending", "aborted",
                      \* "fulfilled", "failed"
    peers,            \* other analyzeMessage calls in flight on the same server
    posts,            \* route.ts: the POST requests in flight together, a bag of
                      \* [route, ip, body, httpStatus, httpCode, call]
    windows           \* history: per caller, the window its last request fell in:
                      \* when it was opened, the requests counted in it, how many of
                      \* them passed, and when the caller last got a 429 (-1: never)

coreVars == << pc, message, remote, response, result, path, remoteCalls, heuristicCalls,
               console >>

routeVars == << ipRequestCounts, now, route, ip, body, httpStatus, httpCode >>

vars == << GEMINI_API_KEY, coreVars, routeVars, fetch, peers, posts, windows >>

\* ---- Characters. A JS string is modelled as a sequence of one-character strings.
LOWER ==
    << "a", "b", "c", "d", "e", "f", "g", "h", "i", "j", "k", "l", "m",
       "n", "o", "p", "q", "r", "s", "t", "u", "v", "w", "x", "y", "z" >>

UPPER ==
    << "A", "B", "C", "D", "E", "F", "G", "H", "I", "J", "K", "L", "M",
       "N", "O", "P", "Q", "R", "S", "T", "U", "V", "W", "X", "Y", "Z" >>

LowerSet == { LOWER[i] : i \in 1..26 }

UpperSet == { UPPER[i] : i \in 1..26 }

\* the regular expression class \s, on the characters the messages are made of
WhiteSpace == { " ", "\t", "\n", "\r" }

toLowerCaseChar == [c \in UpperSet |-> LOWER[CHOOSE i \in 1..26 : UPPER[i] = c]]

toUpperCaseChar == [c \in LowerSet |-> UPPER[CHOOSE i \in 1..26 : LOWER[i] = c]]

\* String.prototype.toLowerCase
toLowerCase(s) ==
    [i \in 1..Len(s) |-> IF s[i] \in UpperSet THEN toLowerCaseChar[s[i]] ELSE s[i]]

\* String.prototype.toUpperCase
toUpperCase(s) ==
    [i \in 1..Len(s) |-> IF s[i] \in LowerSet THEN toUpperCaseChar[s[i]] ELSE s[i]]

\* String.prototype.includes: k occurs in s as a contiguous substring
includes(s, k) ==
    \E i \in 0..(Len(s) - Len(k)) : \A j \in 1..Len(k) : s[i + j] = k[j]

\* Array.prototype.slice(0, n)
slice0(a, n) == SubSeq(a, 1, IF Len(a) < n THEN Len(a) ELSE n)

\* String.prototype.split(" "): the pieces between the separator characters
RECURSIVE split(_, _)
split(s, sep) ==
    IF \A i \in 1..Len(s) : s[i] # sep
    THEN << s >>
    ELSE LET i == CHOOSE k \in 1..Len(s) :
                      s[k] = sep /\ \A j \in 1..(k - 1) : s[j] # sep
         IN  << SubSeq(s, 1, i - 1) >> \o split(SubSeq(s, i + 1, Len(s)), sep)

\* [...a, ...b] for a sequence of strings joined by a separator (Array.prototype.join)
RECURSIVE join(_, _)
join(a, sep) ==
    IF Len(a) = 0 THEN << >>
    ELSE IF Len(a) = 1 THEN a[1]
    ELSE a[1] \o sep \o join(Tail(a), sep)

\* Array.from(new Set(a)): the elements of a in first-seen order, each once
RECURSIVE unique(_)
unique(a) ==
    IF Len(a) = 0 THEN << >>
    ELSE LET init == unique(SubSeq(a, 1, Len(a) - 1))
             last == a[Len(a)]
         IN  IF \E i \in 1..Len(init) : init[i] = last THEN init ELSE Append(init, last)

\* ---- JS values: the fields of a verdict object
JNum(n) == [t |-> "number", num |-> n]

\* a JSON number that is not an integer: num / den
JFrac(n, d) == [t |-> "number", num |-> n, den |-> d]

JStr(s) == [t |-> "string", str |-> s]

JArr(a) == [t |-> "array", arr |-> a]

JNull == [t |-> "null"]

JUndefined == [t |-> "undefined"]

\* ---- Pattern catalog: SCAM_PATTERNS (src/lib/analyze.ts:11-91). Every JS string is a
\* sequence of one-character strings, so that includes() is a real substring test.

urgentLanguage_keywords ==
    << << "u", "r", "g", "e", "n", "t" >>,
       << "i", "m", "m", "e", "d", "i", "a", "t", "e", "l", "y" >>,
       << "a", "c", "t", " ", "n", "o", "w" >>,
       << "l", "i", "m", "i", "t", "e", "d", " ", "t", "i", "m", "e" >>,
       << "e", "x", "p", "i", "r", "e", "s" >>,
       << "h", "u", "r", "r", "y" >>,
       << "t", "o", "d", "a", "y", " ", "o", "n", "l", "y" >>,
       << "l", "a", "s", "t", " ", "c", "h", "a", "n", "c", "e" >>,
       << "f", "i", "n", "a", "l", " ", "n", "o", "t", "i", "c", "e" >>,
       << "s", "u", "s", "p", "e", "n", "d", "e", "d" >>,
       << "l", "o", "c", "k", "e", "d" >>,
       << "e", "x", "p", "i", "r", "e" >> >>

\* "Urgent or time-pressured language"
urgentLanguage_description ==
    << "U", "r", "g", "e", "n", "t", " ", "o", "r", " ", "t", "i", "m", "e", "-", "p", "r",
       "e", "s", "s", "u", "r", "e", "d", " ", "l", "a", "n", "g", "u", "a", "g", "e" >>

paymentRequest_keywords ==
    << << "w", "i", "r", "e", " ", "t", "r", "a", "n", "s", "f", "e", "r" >>,
       << "g", "i", "f", "t", " ", "c", "a", "r", "d" >>,
       << "b", "i", "t", "c", "o", "i", "n" >>,
       << "c", "r", "y", "p", "t", "o" >>,
       << "p", "a", "y", "m", "e", "n", "t" >>,
       << "s", "e", "n", "d", " ", "m", "o", "n", "e", "y" >>,
       << "p", "a", "y", " ", "n", "o", "w" >>,
       << "i", "n", "v", "o", "i", "c", "e" >>,
       << "w", "e", "s", "t", "e", "r", "n", " ", "u", "n", "i", "o", "n" >>,
       << "p", "a", "y", "p", "a", "l" >>,
       << "v", "e", "n", "m", "o" >>,
       << "c", "a", "s", "h", " ", "a", "p", "p" >>,
       << "z", "e", "l", "l", "e" >> >>

\* "Requests for payment or financial information"
paymentRequest_description ==
    << "R", "e", "q", "u", "e", "s", "t", "s", " ", "f", "o", "r", " ", "p", "a", "y", "m",
       "e", "n", "t", " ", "o", "r", " ", "f", "i", "n", "a", "n", "c", "i", "a", "l", " ",
       "i", "n", "f", "o", "r", "m", "a", "t", "i", "o", "n" >>

impersonation_keywords ==
    << << "v", "e", "r", "i", "f", "y", " ", "a", "c", "c", "o", "u", "n", "t" >>,
       << "c", "o", "n", "f", "i", "r", "m", " ", "i", "d", "e", "n", "t", "i", "t", "y" >>,
       << "u", "p", "d", "a", "t", "e", " ", "i", "n", "f", "o", "r", "m", "a", "t", "i", "o", "n" >>,
       << "s", "e", "c", "u", "r", "i", "t", "y", " ", "a", "l", "e", "r", "t" >>,
       << "u", "n", "u", "s", "u", "a", "l", " ", "a", "c", "t", "i", "v", "i", "t", "y" >>,
       << "c", "l", "i", "c", "k", " ", "h", "e", "r", "e" >>,
       << "l", "o", "g", " ", "i", "n" >>,
       << "r", "e", "s", "e", "t", " ", "p", "a", "s", "s", "w", "o", "r", "d" >>,
       << "s", "u", "s", "p", "e", "n", "d", "e", "d", " ", "a", "c", "c", "o", "u", "n", "t" >>,
       << "u", "n", "a", "u", "t", "h", "o", "r", "i", "z", "e", "d", " ", "a", "c", "c", "e", "s",
   "s" >> >>

\* "Impersonation of official organizations"
impersonation_description ==
    << "I", "m", "p", "e", "r", "s", "o", "n", "a", "t", "i", "o", "n", " ", "o", "f", " ",
       "o", "f", "f", "i", "c", "i", "a", "l", " ", "o", "r", "g", "a", "n", "i", "z", "a",
       "t", "i", "o", "n", "s" >>

prizes_keywords ==
    << << "y", "o", "u", "'", "v", "e", " ", "w", "o", "n" >>,
       << "c", "o", "n", "g", "r", "a", "t", "u", "l", "a", "t", "i", "o", "n", "s" >>,
       << "w", "i", "n", "n", "e", "r" >>,
       << "p", "r", "i", "z", "e" >>,
       << "l", "o", "t", "t", "e", "r", "y" >>,
       << "c", "l", "a", "i", "m", " ", "y", "o", "u", "r" >>,
       << "f", "r", "e", "e", " ", "g", "i", "f", "t" >>,
       << "s", "e", "l", "e", "c", "t", "e", "d" >>,
       << "l", "u", "c", "k", "y" >> >>

\* "Too-good-to-be-true offers or prizes"
prizes_description ==
    << "T", "o", "o", "-", "g", "o", "o", "d", "-", "t", "o", "-", "b", "e", "-", "t", "r",
       "u", "e", " ", "o", "f", "f", "e", "r", "s", " ", "o", "r", " ", "p", "r", "i", "z",
       "e", "s" >>

threats_keywords ==
    << << "l", "e", "g", "a", "l", " ", "a", "c", "t", "i", "o", "n" >>,
       << "a", "r", "r", "e", "s", "t" >>,
       << "w", "a", "r", "r", "a", "n", "t" >>,
       << "p", "o", "l", "i", "c", "e" >>,
       << "l", "a", "w", "s", "u", "i", "t" >>,
       << "c", "o", "u", "r", "t" >>,
       << "p", "e", "n", "a", "l", "t", "y" >>,
       << "f", "i", "n", "e" >>,
       << "c", "o", "n", "s", "e", "q", "u", "e", "n", "c", "e", "s" >>,
       << "i", "n", "v", "e", "s", "t", "i", "g", "a", "t", "i", "o", "n" >> >>

\* "Threats or legal intimidation"
threats_description ==
    << "T", "h", "r", "e", "a", "t", "s", " ", "o", "r", " ", "l", "e", "g", "a", "l", " ",
       "i", "n", "t", "i", "m", "i", "d", "a", "t", "i", "o", "n" >>

SCAM_PATTERNS ==
    << [key |-> "urgentLanguage", keywords |-> urgentLanguage_keywords, description |-> urgentLanguage_description],
       [key |-> "paymentRequest", keywords |-> paymentRequest_keywords, description |-> paymentRequest_description],
       [key |-> "impersonation", keywords |-> impersonation_keywords, description |-> impersonation_description],
       [key |-> "prizes", keywords |-> prizes_keywords, description |-> prizes_description],
       [key |-> "threats", keywords |-> threats_keywords, description |-> threats_description] >>

\* personalInfoKeywords (src/lib/analyze.ts:139-147)
personalInfoKeywords ==
    << << "s", "o", "c", "i", "a", "l", " ", "s", "e", "c", "u", "r", "i", "t", "y" >>,
       << "s", "s", "n" >>,
       << "c", "r", "e", "d", "i", "t", " ", "c", "a", "r", "d" >>,
       << "b", "a", "n", "k", " ", "a", "c", "c", "o", "u", "n", "t" >>,
       << "p", "a", "s", "s", "w", "o", "r", "d" >>,
       << "p", "i", "n" >>,
       << "d", "a", "t", "e", " ", "o", "f", " ", "b", "i", "r", "t", "h" >> >>

\* ---- String literals of analyzeHeuristically (src/lib/analyze.ts:123-200)

\* "Poor grammar or unusual formatting"
POOR_GRAMMAR ==
    << "P", "o", "o", "r", " ", "g", "r", "a", "m", "m", "a", "r", " ", "o", "r", " ", "u",
       "n", "u", "s", "u", "a", "l", " ", "f", "o", "r", "m", "a", "t", "t", "i", "n", "g" >>

\* "Shortened or suspicious URLs"
SHORTENED_URLS ==
    << "S", "h", "o", "r", "t", "e", "n", "e", "d", " ", "o", "r", " ", "s", "u", "s", "p",
       "i", "c", "i", "o", "u", "s", " ", "U", "R", "L", "s" >>

\* "Contains links (verify before clicking)"
CONTAINS_LINKS ==
    << "C", "o", "n", "t", "a", "i", "n", "s", " ", "l", "i", "n", "k", "s", " ", "(", "v",
       "e", "r", "i", "f", "y", " ", "b", "e", "f", "o", "r", "e", " ", "c", "l", "i", "c",
       "k", "i", "n", "g", ")" >>

\* "Requests for sensitive personal information"
SENSITIVE_INFO ==
    << "R", "e", "q", "u", "e", "s", "t", "s", " ", "f", "o", "r", " ", "s", "e", "n", "s",
       "i", "t", "i", "v", "e", " ", "p", "e", "r", "s", "o", "n", "a", "l", " ", "i", "n",
       "f", "o", "r", "m", "a", "t", "i", "o", "n" >>

\* "No scam patterns detected"
NO_PATTERNS ==
    << "N", "o", " ", "s", "c", "a", "m", " ", "p", "a", "t", "t", "e", "r", "n", "s", " ",
       "d", "e", "t", "e", "c", "t", "e", "d" >>

\* "This message appears to be legitimate with no obvious scam indicators detected. However, always exercise caution when sharing personal information or clicking on links."
EXPLANATION_ZERO ==
    << "T", "h", "i", "s", " ", "m", "e", "s", "s", "a", "g", "e", " ", "a", "p", "p", "e",
       "a", "r", "s", " ", "t", "o", " ", "b", "e", " ", "l", "e", "g", "i", "t", "i", "m",
       "a", "t", "e", " ", "w", "i", "t", "h", " ", "n", "o", " ", "o", "b", "v", "i", "o",
       "u", "s", " ", "s", "c", "a", "m", " ", "i", "n", "d", "i", "c", "a", "t", "o", "r",
       "s", " ", "d", "e", "t", "e", "c", "t", "e", "d", ".", " ", "H", "o", "w", "e", "v",
       "e", "r", ",", " ", "a", "l", "w", "a", "y", "s", " ", "e", "x", "e", "r", "c", "i",
       "s", "e", " ", "c", "a", "u", "t", "i", "o", "n", " ", "w", "h", "e", "n", " ", "s",
       "h", "a", "r", "i", "n", "g", " ", "p", "e", "r", "s", "o", "n", "a", "l", " ", "i",
       "n", "f", "o", "r", "m", "a", "t", "i", "o", "n", " ", "o", "r", " ", "c", "l", "i",
       "c", "k", "i", "n", "g", " ", "o", "n", " ", "l", "i", "n", "k", "s", "." >>

\* "This message shows minimal risk indicators. "
LOW_PREFIX ==
    << "T", "h", "i", "s", " ", "m", "e", "s", "s", "a", "g", "e", " ", "s", "h", "o", "w",
       "s", " ", "m", "i", "n", "i", "m", "a", "l", " ", "r", "i", "s", "k", " ", "i", "n",
       "d", "i", "c", "a", "t", "o", "r", "s", ".", " " >>

\* "While some patterns were detected, they may be used in legitimate contexts."
LOW_SOME ==
    << "W", "h", "i", "l", "e", " ", "s", "o", "m", "e", " ", "p", "a", "t", "t", "e", "r",
       "n", "s", " ", "w", "e", "r", "e", " ", "d", "e", "t", "e", "c", "t", "e", "d", ",",
       " ", "t", "h", "e", "y", " ", "m", "a", "y", " ", "b", "e", " ", "u", "s", "e", "d",
       " ", "i", "n", " ", "l", "e", "g", "i", "t", "i", "m", "a", "t", "e", " ", "c", "o",
       "n", "t", "e", "x", "t", "s", "." >>

\* "No significant scam patterns were found."
LOW_NONE ==
    << "N", "o", " ", "s", "i", "g", "n", "i", "f", "i", "c", "a", "n", "t", " ", "s", "c",
       "a", "m", " ", "p", "a", "t", "t", "e", "r", "n", "s", " ", "w", "e", "r", "e", " ",
       "f", "o", "u", "n", "d", "." >>

\* " Always verify the sender's identity before taking action."
LOW_SUFFIX ==
    << " ", "A", "l", "w", "a", "y", "s", " ", "v", "e", "r", "i", "f", "y", " ", "t", "h",
       "e", " ", "s", "e", "n", "d", "e", "r", "'", "s", " ", "i", "d", "e", "n", "t", "i",
       "t", "y", " ", "b", "e", "f", "o", "r", "e", " ", "t", "a", "k", "i", "n", "g", " ",
       "a", "c", "t", "i", "o", "n", "." >>

\* "This message contains several concerning elements that are commonly found in scam attempts. The use of "
MEDIUM_PREFIX ==
    << "T", "h", "i", "s", " ", "m", "e", "s", "s", "a", "g", "e", " ", "c", "o", "n", "t",
       "a", "i", "n", "s", " ", "s", "e", "v", "e", "r", "a", "l", " ", "c", "o", "n", "c",
       "e", "r", "n", "i", "n", "g", " ", "e", "l", "e", "m", "e", "n", "t", "s", " ", "t",
       "h", "a", "t", " ", "a", "r", "e", " ", "c", "o", "m", "m", "o", "n", "l", "y", " ",
       "f", "o", "u", "n", "d", " ", "i", "n", " ", "s", "c", "a", "m", " ", "a", "t", "t",
       "e", "m", "p", "t", "s", ".", " ", "T", "h", "e", " ", "u", "s", "e", " ", "o", "f",
       " " >>

\* "suspicious language"
SUSPICIOUS_LANGUAGE ==
    << "s", "u", "s", "p", "i", "c", "i", "o", "u", "s", " ", "l", "a", "n", "g", "u", "a",
       "g", "e" >>

\* " and other patterns suggest caution is warranted. Verify the sender through official channels before responding or clicking any links."
MEDIUM_SUFFIX ==
    << " ", "a", "n", "d", " ", "o", "t", "h", "e", "r", " ", "p", "a", "t", "t", "e", "r",
       "n", "s", " ", "s", "u", "g", "g", "e", "s", "t", " ", "c", "a", "u", "t", "i", "o",
       "n", " ", "i", "s", " ", "w", "a", "r", "r", "a", "n", "t", "e", "d", ".", " ", "V",
       "e", "r", "i", "f", "y", " ", "t", "h", "e", " ", "s", "e", "n", "d", "e", "r", " ",
       "t", "h", "r", "o", "u", "g", "h", " ", "o", "f", "f", "i", "c", "i", "a", "l", " ",
       "c", "h", "a", "n", "n", "e", "l", "s", " ", "b", "e", "f", "o", "r", "e", " ", "r",
       "e", "s", "p", "o", "n", "d", "i", "n", "g", " ", "o", "r", " ", "c", "l", "i", "c",
       "k", "i", "n", "g", " ", "a", "n", "y", " ", "l", "i", "n", "k", "s", "." >>

\* "(U+26A0 U+FE0F) This message exhibits multiple high-risk characteristics typical of scam attempts. The combination of "
HIGH_PREFIX ==
    << "U+26A0", "U+FE0F", " ", "T", "h", "i", "s", " ", "m", "e", "s", "s", "a", "g", "e",
       " ", "e", "x", "h", "i", "b", "i", "t", "s", " ", "m", "u", "l", "t", "i", "p", "l",
       "e", " ", "h", "i", "g", "h", "-", "r", "i", "s", "k", " ", "c", "h", "a", "r", "a",
       "c", "t", "e", "r", "i", "s", "t", "i", "c", "s", " ", "t", "y", "p", "i", "c", "a",
       "l", " ", "o", "f", " ", "s", "c", "a", "m", " ", "a", "t", "t", "e", "m", "p", "t",
       "s", ".", " ", "T", "h", "e", " ", "c", "o", "m", "b", "i", "n", "a", "t", "i", "o",
       "n", " ", "o", "f", " " >>

\* " and "
AND_SEP ==
    << " ", "a", "n", "d", " " >>

\* " are major red flags. Do not click any links, provide personal information, or send money. Contact the organization directly using official contact information to verify."
HIGH_SUFFIX ==
    << " ", "a", "r", "e", " ", "m", "a", "j", "o", "r", " ", "r", "e", "d", " ", "f", "l",
       "a", "g", "s", ".", " ", "D", "o", " ", "n", "o", "t", " ", "c", "l", "i", "c", "k",
       " ", "a", "n", "y", " ", "l", "i", "n", "k", "s", ",", " ", "p", "r", "o", "v", "i",
       "d", "e", " ", "p", "e", "r", "s", "o", "n", "a", "l", " ", "i", "n", "f", "o", "r",
       "m", "a", "t", "i", "o", "n", ",", " ", "o", "r", " ", "s", "e", "n", "d", " ", "m",
       "o", "n", "e", "y", ".", " ", "C", "o", "n", "t", "a", "c", "t", " ", "t", "h", "e",
       " ", "o", "r", "g", "a", "n", "i", "z", "a", "t", "i", "o", "n", " ", "d", "i", "r",
       "e", "c", "t", "l", "y", " ", "u", "s", "i", "n", "g", " ", "o", "f", "f", "i", "c",
       "i", "a", "l", " ", "c", "o", "n", "t", "a", "c", "t", " ", "i", "n", "f", "o", "r",
       "m", "a", "t", "i", "o", "n", " ", "t", "o", " ", "v", "e", "r", "i", "f", "y", "." >>
\* ---- Literals of the link regular expressions (src/lib/analyze.ts:128-129)

\* "http://"
RX_HTTP ==
    << "h", "t", "t", "p", ":", "/", "/" >>

\* "https://"
RX_HTTPS ==
    << "h", "t", "t", "p", "s", ":", "/", "/" >>

\* "www."
RX_WWW ==
    << "w", "w", "w", "." >>

\* "bit.ly"
RX_BITLY ==
    << "b", "i", "t", ".", "l", "y" >>

\* "tinyurl"
RX_TINYURL ==
    << "t", "i", "n", "y", "u", "r", "l" >>

\* "goo.gl"
RX_GOOGL ==
    << "g", "o", "o", ".", "g", "l" >>
\* "Likely a scam."
TXT_SCAM ==
    << "L", "i", "k", "e", "l", "y", " ", "a", " ", "s", "c", "a", "m", "." >>

\* "Urgency"
TXT_URGENCY ==
    << "U", "r", "g", "e", "n", "c", "y" >>

\* "act now"
TXT_ACT_NOW ==
    << "a", "c", "t", " ", "n", "o", "w" >>
\* ---- analyzeHeuristically (src/lib/analyze.ts:96-203)

\* pattern.keywords.filter(keyword => messageLower.includes(keyword.toLowerCase()))
matchedKeywordsOf(messageLower, pattern) ==
    SelectSeq(pattern.keywords, LAMBDA keyword : includes(messageLower, toLowerCase(keyword)))

\* checkPattern that scores only the keywords it reports
checkPattern_reportedOnly(acc, messageLower, pattern) ==
    LET matchedKeywords == matchedKeywordsOf(messageLower, pattern)
    IN  IF Len(matchedKeywords) > 0
        THEN [detectedPatterns  |-> Append(acc.detectedPatterns, pattern.description),
              suspiciousPhrases |-> acc.suspiciousPhrases \o slice0(matchedKeywords, 3),
              riskScore         |-> acc.riskScore + 15 + Len(slice0(matchedKeywords, 3)) * 5]
        ELSE acc

\* One iteration of the loop over Object.entries(SCAM_PATTERNS), lines 103-113
checkPattern(acc, messageLower, pattern) ==
    LET matchedKeywords == matchedKeywordsOf(messageLower, pattern)
    IN  IF Len(matchedKeywords) > 0
        THEN [detectedPatterns  |-> Append(acc.detectedPatterns, pattern.description),
              suspiciousPhrases |-> acc.suspiciousPhrases \o slice0(matchedKeywords, 3),
              riskScore         |-> acc.riskScore + 15 + Len(matchedKeywords) * 5]
        ELSE acc

\* The loop over the first n catalog entries, in declaration order
RECURSIVE patternLoop(_, _)
patternLoop(messageLower, n) ==
    IF n = 0
    THEN [detectedPatterns |-> << >>, suspiciousPhrases |-> << >>, riskScore |-> 0]
    ELSE checkPattern(patternLoop(messageLower, n - 1), messageLower, SCAM_PATTERNS[n])

\* (message.match(/!/g) || []).length > 2
hasMultipleExclamations(msg) ==
    Cardinality({ i \in 1..Len(msg) : msg[i] = "!" }) > 2

\* message.split(" ").filter(word => word.length > 3 && word === word.toUpperCase()).length > 2
hasAllCaps(msg) ==
    Len(SelectSeq(split(msg, " "),
                  LAMBDA word : Len(word) > 3 /\ word = toUpperCase(word))) > 2

\* /\s{3,}/.test(message) || /[a-z][A-Z]/.test(message)
hasPoorSpacing(msg) ==
    \/ \E i \in 1..(Len(msg) - 2) :
          msg[i] \in WhiteSpace /\ msg[i + 1] \in WhiteSpace /\ msg[i + 2] \in WhiteSpace
    \/ \E i \in 1..(Len(msg) - 1) : msg[i] \in LowerSet /\ msg[i + 1] \in UpperSet

\* checkFormatting that adds its points without a pattern entry
checkFormatting_scoreOnly(acc, msg) ==
    IF hasMultipleExclamations(msg) \/ hasAllCaps(msg) \/ hasPoorSpacing(msg)
    THEN [acc EXCEPT !.riskScore = @ + 10]
    ELSE acc

\* Lines 115-125: the formatting check
checkFormatting(acc, msg) ==
    IF hasMultipleExclamations(msg) \/ hasAllCaps(msg) \/ hasPoorSpacing(msg)
    THEN [acc EXCEPT !.detectedPatterns = Append(@, POOR_GRAMMAR), !.riskScore = @ + 10]
    ELSE acc

\* /https?:\/\/|www\./i.test(message)
hasLinks(msg) ==
    LET lower == toLowerCase(msg)
    IN  includes(lower, RX_HTTP) \/ includes(lower, RX_HTTPS) \/ includes(lower, RX_WWW)

\* /(bit\.ly|tinyurl|goo\.gl)/i.test(message)
hasShortenedLinks(msg) ==
    LET lower == toLowerCase(msg)
    IN  includes(lower, RX_BITLY) \/ includes(lower, RX_TINYURL) \/ includes(lower, RX_GOOGL)

\* checkLinks that counts a link also when nothing was detected before it
checkLinks_anyLink(acc, msg) ==
    IF hasShortenedLinks(msg)
    THEN [acc EXCEPT !.detectedPatterns = Append(@, SHORTENED_URLS), !.riskScore = @ + 20]
    ELSE IF hasLinks(msg)
    THEN [acc EXCEPT !.detectedPatterns = Append(@, CONTAINS_LINKS), !.riskScore = @ + 10]
    ELSE acc

\* checkLinks that counts a shortened link as a link too
checkLinks_bothLinks(acc, msg) ==
    LET short == IF hasShortenedLinks(msg)
                 THEN [acc EXCEPT !.detectedPatterns = Append(@, SHORTENED_URLS),
                                  !.riskScore = @ + 20]
                 ELSE acc
    IN  IF hasLinks(msg) /\ Len(short.detectedPatterns) > 0
        THEN [short EXCEPT !.detectedPatterns = Append(@, CONTAINS_LINKS),
                           !.riskScore = @ + 10]
        ELSE short

\* checkLinks that counts a shortened link only when something was detected before it
checkLinks_shortenedNeedsPattern(acc, msg) ==
    IF hasShortenedLinks(msg) /\ Len(acc.detectedPatterns) > 0
    THEN [acc EXCEPT !.detectedPatterns = Append(@, SHORTENED_URLS), !.riskScore = @ + 20]
    ELSE IF hasLinks(msg) /\ Len(acc.detectedPatterns) > 0
    THEN [acc EXCEPT !.detectedPatterns = Append(@, CONTAINS_LINKS), !.riskScore = @ + 10]
    ELSE acc

\* checkLinks that sets the score to 20 for a shortened link instead of adding 20
checkLinks_shortenedReplaces(acc, msg) ==
    IF hasShortenedLinks(msg)
    THEN [acc EXCEPT !.detectedPatterns = Append(@, SHORTENED_URLS), !.riskScore = 20]
    ELSE IF hasLinks(msg) /\ Len(acc.detectedPatterns) > 0
    THEN [acc EXCEPT !.detectedPatterns = Append(@, CONTAINS_LINKS), !.riskScore = @ + 10]
    ELSE acc

\* Lines 127-136: the link check
checkLinks(acc, msg) ==
    IF hasShortenedLinks(msg)
    THEN [acc EXCEPT !.detectedPatterns = Append(@, SHORTENED_URLS), !.riskScore = @ + 20]
    ELSE IF hasLinks(msg) /\ Len(acc.detectedPatterns) > 0
    THEN [acc EXCEPT !.detectedPatterns = Append(@, CONTAINS_LINKS), !.riskScore = @ + 10]
    ELSE acc

\* personalInfoKeywords.some(keyword => messageLower.includes(keyword))
hasPersonalInfoRequest(messageLower) ==
    \E i \in 1..Len(personalInfoKeywords) : includes(messageLower, personalInfoKeywords[i])

\* Lines 138-154: the sensitive-information check
checkPersonalInfo(acc, messageLower) ==
    IF hasPersonalInfoRequest(messageLower)
    THEN [acc EXCEPT !.detectedPatterns = Append(@, SENSITIVE_INFO), !.riskScore = @ + 25]
    ELSE acc

\* Lines 102-154: everything that adds to the running score, before the cap
scan(msg) ==
    LET messageLower == toLowerCase(msg)
    IN  checkPersonalInfo(
            checkLinks(
                checkFormatting(patternLoop(messageLower, Len(SCAM_PATTERNS)), msg),
                msg),
            messageLower)

\* capScore without the cap
capScore_none(riskScore) == riskScore

\* Math.min(100, riskScore)
capScore(riskScore) == IF riskScore > 100 THEN 100 ELSE riskScore

\* lenient that lowers the score of every short message
lenient_lengthOnly(riskScore, msg, detectedPatterns) ==
    IF Len(msg) < 50
    THEN (IF riskScore - 10 < 0 THEN 0 ELSE riskScore - 10)
    ELSE riskScore

\* Lines 159-162: the short-message leniency
lenient(riskScore, msg, detectedPatterns) ==
    IF Len(msg) < 50 /\ Len(detectedPatterns) = 0
    THEN (IF riskScore - 10 < 0 THEN 0 ELSE riskScore - 10)
    ELSE riskScore

\* Lines 156-162: the final score
finalScore(acc, msg) == lenient(capScore(acc.riskScore), msg, acc.detectedPatterns)

\* riskLevelOf with < 30 for <= 30
riskLevelOf_below30(riskScore) ==
    IF riskScore < 30 THEN "low"
    ELSE IF riskScore <= 70 THEN "medium"
    ELSE "high"

\* riskLevelOf with < 70 for <= 70
riskLevelOf_below70(riskScore) ==
    IF riskScore <= 30 THEN "low"
    ELSE IF riskScore < 70 THEN "medium"
    ELSE "high"

\* Lines 164-172: the risk level of a score
riskLevelOf(riskScore) ==
    IF riskScore <= 30 THEN "low"
    ELSE IF riskScore <= 70 THEN "medium"
    ELSE "high"

\* explanationOf that looks at the level before it looks at the score
explanationOf_lowFirst(riskScore, riskLevel, detectedPatterns) ==
    IF riskLevel = "low"
    THEN LOW_PREFIX \o (IF Len(detectedPatterns) > 0 THEN LOW_SOME ELSE LOW_NONE) \o LOW_SUFFIX
    ELSE IF riskScore = 0 THEN EXPLANATION_ZERO
    ELSE IF riskLevel = "medium"
    THEN MEDIUM_PREFIX
         \o (IF Len(detectedPatterns) > 0 /\ Len(toLowerCase(detectedPatterns[1])) > 0
             THEN toLowerCase(detectedPatterns[1])
             ELSE SUSPICIOUS_LANGUAGE)
         \o MEDIUM_SUFFIX
    ELSE HIGH_PREFIX
         \o join([i \in 1..Len(slice0(detectedPatterns, 2)) |->
                     toLowerCase(detectedPatterns[i])], AND_SEP)
         \o HIGH_SUFFIX

\* Lines 174-192: the explanation
explanationOf(riskScore, riskLevel, detectedPatterns) ==
    IF riskScore = 0 THEN EXPLANATION_ZERO
    ELSE IF riskLevel = "low"
    THEN LOW_PREFIX \o (IF Len(detectedPatterns) > 0 THEN LOW_SOME ELSE LOW_NONE) \o LOW_SUFFIX
    ELSE IF riskLevel = "medium"
    THEN MEDIUM_PREFIX
         \o (IF Len(detectedPatterns) > 0 /\ Len(toLowerCase(detectedPatterns[1])) > 0
             THEN toLowerCase(detectedPatterns[1])
             ELSE SUSPICIOUS_LANGUAGE)
         \o MEDIUM_SUFFIX
    ELSE HIGH_PREFIX
         \o join([i \in 1..Len(slice0(detectedPatterns, 2)) |->
                     toLowerCase(detectedPatterns[i])], AND_SEP)
         \o HIGH_SUFFIX

\* uniquePhrasesOf without the slice
uniquePhrasesOf_uncapped(suspiciousPhrases) == unique(suspiciousPhrases)

\* Line 194: Array.from(new Set(suspiciousPhrases)).slice(0, 8)
uniquePhrasesOf(suspiciousPhrases) == slice0(unique(suspiciousPhrases), 8)

\* Line 200: the patterns field
patternsOf(detectedPatterns) ==
    IF Len(detectedPatterns) > 0 THEN detectedPatterns ELSE << NO_PATTERNS >>

analyzeHeuristically(msg) ==
    LET acc       == scan(msg)
        riskScore == finalScore(acc, msg)
        riskLevel == riskLevelOf(riskScore)
    IN  [riskScore         |-> JNum(riskScore),
         riskLevel         |-> JStr(riskLevel),
         explanation       |-> JStr(explanationOf(riskScore, riskLevel, acc.detectedPatterns)),
         patterns          |-> JArr(patternsOf(acc.detectedPatterns)),
         suspiciousPhrases |-> JArr(uniquePhrasesOf(acc.suspiciousPhrases))]

\* "urgent "
F_urgent ==
    << "u", "r", "g", "e", "n", "t", " " >>

\* "URGENT "
F_URGENT ==
    << "U", "R", "G", "E", "N", "T", " " >>

\* "expires "
F_expires ==
    << "e", "x", "p", "i", "r", "e", "s", " " >>

\* "suspended account "
F_suspended_account ==
    << "s", "u", "s", "p", "e", "n", "d", "e", "d", " ", "a", "c", "c", "o", "u", "n", "t",
       " " >>

\* "winner "
F_winner ==
    << "w", "i", "n", "n", "e", "r", " " >>

\* "reset password "
F_reset_password ==
    << "r", "e", "s", "e", "t", " ", "p", "a", "s", "s", "w", "o", "r", "d", " " >>

\* "pin "
F_pin ==
    << "p", "i", "n", " " >>

\* "!!!"
F_exclaim ==
    << "!", "!", "!" >>

\* "http://x.co "
F_http ==
    << "h", "t", "t", "p", ":", "/", "/", "x", ".", "c", "o", " " >>

\* "bit.ly/x "
F_bitly ==
    << "b", "i", "t", ".", "l", "y", "/", "x", " " >>

\* "   "
F_spaces ==
    << " ", " ", " " >>

\* "HELLO THERE FOLKS "
F_caps ==
    << "H", "E", "L", "L", "O", " ", "T", "H", "E", "R", "E", " ", "F", "O", "L", "K", "S",
       " " >>

\* "are we still on for lunch tomorrow at the cafe downtown? "
F_filler ==
    << "a", "r", "e", " ", "w", "e", " ", "s", "t", "i", "l", "l", " ", "o", "n", " ", "f",
       "o", "r", " ", "l", "u", "n", "c", "h", " ", "t", "o", "m", "o", "r", "r", "o", "w",
       " ", "a", "t", " ", "t", "h", "e", " ", "c", "a", "f", "e", " ", "d", "o", "w", "n",
       "t", "o", "w", "n", "?", " " >>

\* The fragments messages are composed of, each setting off one signal of the scorer
\* (or none)
Fragments ==
    << F_urgent,
       F_URGENT,
       F_expires,
       F_suspended_account,
       F_winner,
       F_reset_password,
       F_pin,
       F_exclaim,
       F_http,
       F_bitly,
       F_spaces,
       F_caps,
       F_filler >>

\* "Hey, are we still on for lunch tomorrow?"
MSG_LUNCH ==
    << "H", "e", "y", ",", " ", "a", "r", "e", " ", "w", "e", " ", "s", "t", "i", "l", "l",
       " ", "o", "n", " ", "f", "o", "r", " ", "l", "u", "n", "c", "h", " ", "t", "o", "m",
       "o", "r", "r", "o", "w", "?" >>

\* "URGENT!!! Your account is suspended. Click here to verify account now: http://bit.ly/x"
MSG_URGENT_BITLY ==
    << "U", "R", "G", "E", "N", "T", "!", "!", "!", " ", "Y", "o", "u", "r", " ", "a", "c",
       "c", "o", "u", "n", "t", " ", "i", "s", " ", "s", "u", "s", "p", "e", "n", "d", "e",
       "d", ".", " ", "C", "l", "i", "c", "k", " ", "h", "e", "r", "e", " ", "t", "o", " ",
       "v", "e", "r", "i", "f", "y", " ", "a", "c", "c", "o", "u", "n", "t", " ", "n", "o",
       "w", ":", " ", "h", "t", "t", "p", ":", "/", "/", "b", "i", "t", ".", "l", "y", "/",
       "x" >>

\* "The raffle winner gets two tickets to the show ok."
MSG_WINNER_50 ==
    << "T", "h", "e", " ", "r", "a", "f", "f", "l", "e", " ", "w", "i", "n", "n", "e", "r",
       " ", "g", "e", "t", "s", " ", "t", "w", "o", " ", "t", "i", "c", "k", "e", "t", "s",
       " ", "t", "o", " ", "t", "h", "e", " ", "s", "h", "o", "w", " ", "o", "k", "." >>

\* "urgent, immediately, act now, limited time, expires, hurry, today only, last chance, final notice, suspended, locked, expire"
MSG_ALL_URGENT ==
    << "u", "r", "g", "e", "n", "t", ",", " ", "i", "m", "m", "e", "d", "i", "a", "t", "e",
       "l", "y", ",", " ", "a", "c", "t", " ", "n", "o", "w", ",", " ", "l", "i", "m", "i",
       "t", "e", "d", " ", "t", "i", "m", "e", ",", " ", "e", "x", "p", "i", "r", "e", "s",
       ",", " ", "h", "u", "r", "r", "y", ",", " ", "t", "o", "d", "a", "y", " ", "o", "n",
       "l", "y", ",", " ", "l", "a", "s", "t", " ", "c", "h", "a", "n", "c", "e", ",", " ",
       "f", "i", "n", "a", "l", " ", "n", "o", "t", "i", "c", "e", ",", " ", "s", "u", "s",
       "p", "e", "n", "d", "e", "d", ",", " ", "l", "o", "c", "k", "e", "d", ",", " ", "e",
       "x", "p", "i", "r", "e" >>

\* "!!! urgent, immediately, act now, limited time, expires, hurry, today only, last chance, final notice, suspended, locked, expire; wire transfer, gift card, bitcoin, crypto, payment, send money, pay now, invoice, western union, paypal, venmo, cash app, zelle; verify account, confirm identity, update information, security alert, unusual activity, click here, log in, reset password, suspended account, unauthorized access; you've won, congratulations, winner, prize, lottery, claim your, free gift, selected, lucky; legal action, arrest, warrant, police, lawsuit, court, penalty, fine, consequences, investigation; social security, ssn, credit card, bank account, password, pin, date of birth bit.ly/x"
MSG_EVERYTHING ==
    << "!", "!", "!", " ", "u", "r", "g", "e", "n", "t", ",", " ", "i", "m", "m", "e", "d",
       "i", "a", "t", "e", "l", "y", ",", " ", "a", "c", "t", " ", "n", "o", "w", ",", " ",
       "l", "i", "m", "i", "t", "e", "d", " ", "t", "i", "m", "e", ",", " ", "e", "x", "p",
       "i", "r", "e", "s", ",", " ", "h", "u", "r", "r", "y", ",", " ", "t", "o", "d", "a",
       "y", " ", "o", "n", "l", "y", ",", " ", "l", "a", "s", "t", " ", "c", "h", "a", "n",
       "c", "e", ",", " ", "f", "i", "n", "a", "l", " ", "n", "o", "t", "i", "c", "e", ",",
       " ", "s", "u", "s", "p", "e", "n", "d", "e", "d", ",", " ", "l", "o", "c", "k", "e",
       "d", ",", " ", "e", "x", "p", "i", "r", "e", ";", " ", "w", "i", "r", "e", " ", "t",
       "r", "a", "n", "s", "f", "e", "r", ",", " ", "g", "i", "f", "t", " ", "c", "a", "r",
       "d", ",", " ", "b", "i", "t", "c", "o", "i", "n", ",", " ", "c", "r", "y", "p", "t",
       "o", ",", " ", "p", "a", "y", "m", "e", "n", "t", ",", " ", "s", "e", "n", "d", " ",
       "m", "o", "n", "e", "y", ",", " ", "p", "a", "y", " ", "n", "o", "w", ",", " ", "i",
       "n", "v", "o", "i", "c", "e", ",", " ", "w", "e", "s", "t", "e", "r", "n", " ", "u",
       "n", "i", "o", "n", ",", " ", "p", "a", "y", "p", "a", "l", ",", " ", "v", "e", "n",
       "m", "o", ",", " ", "c", "a", "s", "h", " ", "a", "p", "p", ",", " ", "z", "e", "l",
       "l", "e", ";", " ", "v", "e", "r", "i", "f", "y", " ", "a", "c", "c", "o", "u", "n",
       "t", ",", " ", "c", "o", "n", "f", "i", "r", "m", " ", "i", "d", "e", "n", "t", "i",
       "t", "y", ",", " ", "u", "p", "d", "a", "t", "e", " ", "i", "n", "f", "o", "r", "m",
       "a", "t", "i", "o", "n", ",", " ", "s", "e", "c", "u", "r", "i", "t", "y", " ", "a",
       "l", "e", "r", "t", ",", " ", "u", "n", "u", "s", "u", "a", "l", " ", "a", "c", "t",
       "i", "v", "i", "t", "y", ",", " ", "c", "l", "i", "c", "k", " ", "h", "e", "r", "e",
       ",", " ", "l", "o", "g", " ", "i", "n", ",", " ", "r", "e", "s", "e", "t", " ", "p",
       "a", "s", "s", "w", "o", "r", "d", ",", " ", "s", "u", "s", "p", "e", "n", "d", "e",
       "d", " ", "a", "c", "c", "o", "u", "n", "t", ",", " ", "u", "n", "a", "u", "t", "h",
       "o", "r", "i", "z", "e", "d", " ", "a", "c", "c", "e", "s", "s", ";", " ", "y", "o",
       "u", "'", "v", "e", " ", "w", "o", "n", ",", " ", "c", "o", "n", "g", "r", "a", "t",
       "u", "l", "a", "t", "i", "o", "n", "s", ",", " ", "w", "i", "n", "n", "e", "r", ",",
       " ", "p", "r", "i", "z", "e", ",", " ", "l", "o", "t", "t", "e", "r", "y", ",", " ",
       "c", "l", "a", "i", "m", " ", "y", "o", "u", "r", ",", " ", "f", "r", "e", "e", " ",
       "g", "i", "f", "t", ",", " ", "s", "e", "l", "e", "c", "t", "e", "d", ",", " ", "l",
       "u", "c", "k", "y", ";", " ", "l", "e", "g", "a", "l", " ", "a", "c", "t", "i", "o",
       "n", ",", " ", "a", "r", "r", "e", "s", "t", ",", " ", "w", "a", "r", "r", "a", "n",
       "t", ",", " ", "p", "o", "l", "i", "c", "e", ",", " ", "l", "a", "w", "s", "u", "i",
       "t", ",", " ", "c", "o", "u", "r", "t", ",", " ", "p", "e", "n", "a", "l", "t", "y",
       ",", " ", "f", "i", "n", "e", ",", " ", "c", "o", "n", "s", "e", "q", "u", "e", "n",
       "c", "e", "s", ",", " ", "i", "n", "v", "e", "s", "t", "i", "g", "a", "t", "i", "o",
       "n", ";", " ", "s", "o", "c", "i", "a", "l", " ", "s", "e", "c", "u", "r", "i", "t",
       "y", ",", " ", "s", "s", "n", ",", " ", "c", "r", "e", "d", "i", "t", " ", "c", "a",
       "r", "d", ",", " ", "b", "a", "n", "k", " ", "a", "c", "c", "o", "u", "n", "t", ",",
       " ", "p", "a", "s", "s", "w", "o", "r", "d", ",", " ", "p", "i", "n", ",", " ", "d",
       "a", "t", "e", " ", "o", "f", " ", "b", "i", "r", "t", "h", " ", "b", "i", "t", ".",
       "l", "y", "/", "x" >>

Corpus ==
    { MSG_LUNCH,
      MSG_URGENT_BITLY,
      MSG_WINNER_50,
      MSG_ALL_URGENT,
      MSG_EVERYTHING }
\* ---- The remote service's answer: response.text() as a sequence of tokens. A token
\* is a run of characters that the code's regular expression and JSON.parse treat as
\* a unit: a code fence, a word, a line break, a blank, a JSON punctuation mark, a
\* JSON literal (number, string, null, array) or prose that is not JSON.
TICKS == [k |-> "fence"]

WORD(w) == [k |-> "word", w |-> w]

NL == [k |-> "\n"]

SP == [k |-> " "]

LBRACE == [k |-> "{"]

RBRACE == [k |-> "}"]

COLON == [k |-> ":"]

COMMA == [k |-> ","]

LIT(v) == [k |-> "lit", v |-> v]

\* "key": value
MEMBER(key, v) == << LIT(JStr(key)), COLON, SP, LIT(v) >>

isJsonWord(tok) == tok.k = "word" /\ tok.w = "json"

\* text.replace(/FENCEjson\n?|\n?FENCE/g, "") with FENCE three backticks: at each
\* position the first alternative
\* that matches is removed, scanning left to right (line 250)
RECURSIVE stripFences(_)
stripFences(text) ==
    IF Len(text) = 0 THEN << >>
    ELSE IF text[1].k = "fence" /\ Len(text) >= 2 /\ isJsonWord(text[2])
    THEN stripFences(SubSeq(text, IF Len(text) >= 3 /\ text[3].k = "\n" THEN 4 ELSE 3,
                            Len(text)))
    ELSE IF text[1].k = "\n" /\ Len(text) >= 2 /\ text[2].k = "fence"
    THEN stripFences(SubSeq(text, 3, Len(text)))
    ELSE IF text[1].k = "fence"
    THEN stripFences(Tail(text))
    ELSE << text[1] >> \o stripFences(Tail(text))

isBlank(tok) == tok.k \in { "\n", " " }

\* String.prototype.trim (line 250)
RECURSIVE trim(_)
trim(text) ==
    IF Len(text) = 0 THEN << >>
    ELSE IF isBlank(text[1]) THEN trim(Tail(text))
    ELSE IF isBlank(text[Len(text)]) THEN trim(SubSeq(text, 1, Len(text) - 1))
    ELSE text

JObj(o) == [t |-> "object", obj |-> o]

\* The members between the braces are: nothing, or key : value (, key : value)*
membersWellFormed(m) ==
    \/ Len(m) = 0
    \/ /\ Len(m) % 4 = 3
       /\ \A i \in 1..Len(m) :
             CASE i % 4 = 1 -> m[i].k = "lit" /\ m[i].v.t = "string"
               [] i % 4 = 2 -> m[i].k = ":"
               [] i % 4 = 3 -> m[i].k = "lit"
               [] OTHER     -> m[i].k = ","

\* The object a well-formed member list denotes; a repeated key keeps its last value
objectOf(m) ==
    LET keyAt == { i \in 1..Len(m) : i % 4 = 1 }
        keys  == { m[i].v.str : i \in keyAt }
        lastOf(key) == CHOOSE i \in keyAt :
                           m[i].v.str = key /\ \A j \in keyAt : m[j].v.str = key => j <= i
    IN  [key \in keys |-> m[lastOf(key) + 2].v]

\* JSON.parse (line 252): [ok |-> TRUE, value |-> v], or [ok |-> FALSE] for a SyntaxError.
\* JSON allows blanks between its tokens.
JSONparse(jsonStr) ==
    LET u == SelectSeq(jsonStr, LAMBDA tok : ~isBlank(tok))
    IN  IF Len(u) = 1 /\ u[1].k = "lit"
        THEN [ok |-> TRUE, value |-> u[1].v]
        ELSE IF /\ Len(u) >= 2
                /\ u[1].k = "{"
                /\ u[Len(u)].k = "}"
                /\ membersWellFormed(SubSeq(u, 2, Len(u) - 1))
        THEN [ok |-> TRUE, value |-> JObj(objectOf(SubSeq(u, 2, Len(u) - 1)))]
        ELSE [ok |-> FALSE]

\* Reading a property throws a TypeError on null and undefined
propertyReadThrows(v) == v.t \in { "null", "undefined" }

\* analysis.<field>
getField(v, field) ==
    IF v.t = "object" /\ field \in DOMAIN v.obj THEN v.obj[field] ELSE JUndefined

\* typeof v === 'number'
isNumber(v) == v.t = "number"

\* JS truthiness, as in !analysis.riskLevel
truthy(v) ==
    CASE v.t = "number" -> v.num # 0
      [] v.t = "string" -> Len(v.str) > 0
      [] v.t \in { "null", "undefined" } -> FALSE
      [] OTHER -> TRUE

\* invalidStructure that forgets the riskLevel
invalidStructure_scoreOnly(analysis) == ~isNumber(getField(analysis, "riskScore"))

\* invalidStructure that forgets the type of the riskScore
invalidStructure_levelOnly(analysis) == ~truthy(getField(analysis, "riskLevel"))

\* Line 255: the rough validation of the parsed object
invalidStructure(analysis) ==
    ~isNumber(getField(analysis, "riskScore")) \/ ~truthy(getField(analysis, "riskLevel"))

\* ---- analyzeMessage (src/lib/analyze.ts:209-265). Each operator gives what the call
\* does from one point on: where it ends up, what it returns, and how many heuristic
\* runs, remote calls and log lines that took.
NoResult == [none |-> JUndefined]

\* catchBlock that rethrows, as analyzeMessage did before it had a fallback
catchBlock_rethrow(msg) ==
    [pc |-> "threw", result |-> NoResult, path |-> "none",
     heuristicCalls |-> 0, remoteCalls |-> 0, console |-> << "error" >>]

\* catchBlock that calls generateContent again
catchBlock_retry(msg) ==
    [pc |-> "awaiting", result |-> NoResult, path |-> "none",
     heuristicCalls |-> 0, remoteCalls |-> 1, console |-> << "error" >>]

\* Lines 261-264: the catch block
catchBlock(msg) ==
    [pc |-> "returned", result |-> analyzeHeuristically(msg), path |-> "heuristic",
     heuristicCalls |-> 1, remoteCalls |-> 0, console |-> << "error" >>]

\* afterResponse that recomputes the level of a valid verdict from its score
afterResponse_recomputeLevel(msg, text) ==
    LET jsonStr == trim(stripFences(text))
        parsed  == JSONparse(jsonStr)
    IN  IF ~parsed.ok THEN catchBlock(msg)
        ELSE IF propertyReadThrows(parsed.value) THEN catchBlock(msg)
        ELSE IF invalidStructure(parsed.value) THEN catchBlock(msg)
        ELSE [pc |-> "returned",
              result |-> [parsed.value.obj EXCEPT
                             !.riskLevel = JStr(riskLevelOf(parsed.value.obj.riskScore.num))],
              path |-> "remote",
              heuristicCalls |-> 0, remoteCalls |-> 0, console |-> << >>]

\* Lines 246-259: after generateContent resolved with this text
afterResponse(msg, text) ==
    LET jsonStr == trim(stripFences(text))
        parsed  == JSONparse(jsonStr)
    IN  IF ~parsed.ok THEN catchBlock(msg)
        ELSE IF propertyReadThrows(parsed.value) THEN catchBlock(msg)
        ELSE IF invalidStructure(parsed.value) THEN catchBlock(msg)
        ELSE [pc |-> "returned", result |-> parsed.value.obj, path |-> "remote",
              heuristicCalls |-> 0, remoteCalls |-> 0, console |-> << >>]

\* enter without the check of the credential
enter_alwaysRemote(key, msg) ==
    [pc |-> "awaiting", result |-> NoResult, path |-> "none",
     heuristicCalls |-> 0, remoteCalls |-> 1, console |-> << >>]

\* Lines 212-244: from the call to the first suspension point
enter(key, msg) ==
    IF key = ""
    THEN [pc |-> "returned", result |-> analyzeHeuristically(msg), path |-> "heuristic",
          heuristicCalls |-> 1, remoteCalls |-> 0, console |-> << "warn" >>]
    ELSE [pc |-> "awaiting", result |-> NoResult, path |-> "none",
          heuristicCalls |-> 0, remoteCalls |-> 1, console |-> << >>]

\* ---- Inputs

\* How many fragments a composed message has at most
MaxFrags == 2

\* The fragments with index in S, in the order of Fragments, as one message
RECURSIVE compose(_)
compose(S) ==
    IF S = {} THEN << >>
    ELSE LET i == CHOOSE k \in S : \A j \in S : k <= j
         IN  Fragments[i] \o compose(S \ {i})

\* The messages analysed: every composition of one to MaxFrags different fragments,
\* and the corpus. None is empty: the callers of analyzeMessage pass no empty message.
Messages ==
    Corpus \cup { compose(S) : S \in { T \in SUBSET (1..Len(Fragments)) :
                                          T # {} /\ Cardinality(T) <= MaxFrags } }

\* The members of a complete verdict with this score and level
verdictMembers(score, level) ==
    MEMBER("riskScore", score) \o << COMMA, NL >>
    \o MEMBER("riskLevel", level) \o << COMMA, NL >>
    \o MEMBER("explanation", JStr(TXT_SCAM)) \o << COMMA, NL >>
    \o MEMBER("patterns", JArr(<< TXT_URGENCY >>)) \o << COMMA, NL >>
    \o MEMBER("suspiciousPhrases", JArr(<< TXT_ACT_NOW >>))

object(members) == << LBRACE, NL >> \o members \o << NL, RBRACE >>

\* a complete verdict, as the prompt asks for it
R_valid == object(verdictMembers(JNum(85), JStr("high")))

\* the same inside a json code fence, which the prompt forbids and models add anyway
R_fenced == << TICKS, WORD("json"), NL >> \o R_valid \o << NL, TICKS >>

\* a fence without the word json, and blanks around it
R_bare_fence == << SP, TICKS, NL >> \o R_valid \o << NL, TICKS, NL >>

\* a line break before the fence: the line break and the fence are removed first and the word json stays
R_newline_before_fence == << NL, TICKS, WORD("json"), NL >> \o R_valid \o << NL, TICKS >>

\* prose before the object
R_prose == << [k |-> "prose"], NL >> \o R_valid

\* a trailing comma after the last member
R_trailing_comma == object(verdictMembers(JNum(85), JStr("high")) \o << COMMA >>)

\* the empty text
R_empty == << >>

\* the literal null
R_null == << LIT(JNull) >>

\* a JSON array
R_array == << LIT(JArr(<< TXT_URGENCY >>)) >>

\* the score as a string
R_string_score == object(verdictMembers(JStr("85"), JStr("high")))

\* no riskLevel member
R_missing_level == object(MEMBER("riskScore", JNum(85)))

\* an empty riskLevel
R_empty_level == object(verdictMembers(JNum(85), JStr("")))

\* no riskScore member
R_missing_score == object(MEMBER("riskLevel", JStr("high")))

\* a level that is not the level of the score
R_level_mismatch == object(verdictMembers(JNum(10), JStr("high")))

\* a score outside 0..100, a level outside low/medium/high, nothing else
R_out_of_range ==
    object(MEMBER("riskScore", JNum(150)) \o << COMMA, SP >>
           \o MEMBER("riskLevel", JStr("critical")))

\* a score that is not an integer: 85.5
R_fraction == object(verdictMembers(JFrac(171, 2), JStr("high")))

\* an empty explanation
R_empty_explanation ==
    object(MEMBER("riskScore", JNum(20)) \o << COMMA, SP >>
           \o MEMBER("riskLevel", JStr("low")) \o << COMMA, SP >>
           \o MEMBER("explanation", JStr(<< >>)))

\* riskScore given twice: the last one counts
R_duplicate_key ==
    object(MEMBER("riskScore", JStr("n/a")) \o << COMMA, SP >>
           \o verdictMembers(JNum(50), JStr("medium")))

Responses ==
    { R_valid, R_fenced, R_bare_fence, R_newline_before_fence, R_prose, R_trailing_comma,
      R_empty, R_null, R_array, R_string_score, R_missing_level, R_empty_level,
      R_missing_score, R_level_mismatch, R_out_of_range, R_fraction, R_empty_explanation,
      R_duplicate_key }

\* ---- What surrounds one analyzeMessage call

\* How many other calls are in flight at most
MaxPeers == 1

\* A call that has not begun
IdleRequest ==
    [pc |-> "idle", message |-> << >>, remote |-> "none", response |-> << >>,
     result |-> NoResult, path |-> "none", remoteCalls |-> 0, heuristicCalls |-> 0,
     console |-> << >>]

\* new Map()
EmptyMap == [key \in {} |-> 0]

\* No POST is being handled, the page has no fetch under way
routeIdle ==
    /\ route = "idle"
    /\ ip = << >>
    /\ body = << >>
    /\ httpStatus = 0
    /\ httpCode = ""

\* ---- The state machine

Init ==
    /\ GEMINI_API_KEY \in { "", "key" }
    /\ pc = "idle"
    /\ message = << >>
    /\ remote = "none"
    /\ response = << >>
    /\ result = NoResult
    /\ path = "none"
    /\ remoteCalls = 0
    /\ heuristicCalls = 0
    /\ console = << >>
    /\ ipRequestCounts = EmptyMap
    /\ now = 0
    /\ routeIdle
    /\ fetch = "none"
    /\ peers = [p \in 1..MaxPeers |-> IdleRequest]
    /\ posts = EmptyBag
    /\ windows = EmptyMap

\* analyzeMessage(m) is called and runs to its first suspension point or to its end
Call(m) ==
    /\ pc = "idle"
    /\ LET c == enter(GEMINI_API_KEY, m)
       IN  /\ pc' = c.pc
           /\ result' = c.result
           /\ path' = c.path
           /\ heuristicCalls' = c.heuristicCalls
           /\ remoteCalls' = c.remoteCalls
           /\ console' = c.console
    /\ message' = m
    /\ remote' = (IF remoteCalls' > 0 THEN "pending" ELSE "none")
    /\ response' = << >>
    /\ UNCHANGED << GEMINI_API_KEY, routeVars, fetch, peers, posts, windows >>

\* The rest of the call, taken from one of the operators above
Continue(c) ==
    /\ pc' = c.pc
    /\ result' = c.result
    /\ path' = c.path
    /\ heuristicCalls' = heuristicCalls + c.heuristicCalls
    /\ remoteCalls' = remoteCalls + c.remoteCalls
    /\ console' = console \o c.console

\* model.generateContent rejects (network error, service error, quota)
GenerateContentRejects ==
    /\ pc = "awaiting"
    /\ remote' = "rejected"
    /\ Continue(catchBlock(message))
    /\ UNCHANGED << GEMINI_API_KEY, message, response, routeVars, fetch, peers, posts, windows >>

\* model.generateContent resolves and response.text() is text
GenerateContentResolves(text) ==
    /\ pc = "awaiting"
    /\ remote' = "resolved"
    /\ response' = text
    /\ Continue(afterResponse(message, text))
    /\ UNCHANGED << GEMINI_API_KEY, message, routeVars, fetch, peers, posts, windows >>

\* The caller's await completes: the call is over and nothing of it remains (the
\* core keeps no state from one request to the next)
Settle ==
    /\ pc \in { "returned", "threw" }
    /\ pc' = "idle"
    /\ message' = << >>
    /\ remote' = "none"
    /\ response' = << >>
    /\ result' = NoResult
    /\ path' = "none"
    /\ remoteCalls' = 0
    /\ heuristicCalls' = 0
    /\ console' = << >>
    /\ UNCHANGED << GEMINI_API_KEY, routeVars, fetch, peers, posts, windows >>

Next ==
    \/ \E m \in Messages : Call(m)
    \/ GenerateContentRejects
    \/ \E text \in Responses : GenerateContentResolves(text)
    \/ Settle

Spec == Init /\ [][Next]_vars

\* ---- Properties of analyzeMessage

\* The responses that make the remote attempt fail, listed by what is wrong with them:
\* not parsable as JSON after the fences are stripped, or parsed but without a numeric
\* riskScore or without a riskLevel
UnparsableResponses ==
    { R_prose, R_trailing_comma, R_empty, R_newline_before_fence }

IncompleteResponses ==
    { R_null, R_array, R_string_score, R_missing_level, R_empty_level, R_missing_score }

remoteFailed ==
    \/ remote = "rejected"
    \/ remote = "resolved" /\ response \in UnparsableResponses \cup IncompleteResponses

\* C1: with a credential configured, whatever the remote call does (it is rejected, it
\* answers with text that does not parse, it answers with an object that lacks required
\* fields, it answers well), analyzeMessage never throws to its caller, and once the
\* remote call has an outcome the call has returned an object with a riskScore and a
\* riskLevel.
C1_NeverFails ==
    /\ pc # "threw"
    /\ (GEMINI_API_KEY # "" /\ remote \in { "rejected", "resolved" })
          => /\ pc = "returned"
             /\ { "riskScore", "riskLevel" } \subseteq DOMAIN result
             /\ result.riskScore.t = "number"

C1_Witness ==
    /\ GEMINI_API_KEY # ""
    /\ remote = "resolved"
    /\ response = R_trailing_comma
    /\ pc = "returned"
    /\ console = << "error" >>

\* C2: whenever the remote attempt fails (the call is rejected, the response does not
\* parse, the parsed value lacks a numeric riskScore or a riskLevel), the value returned
\* equals, field for field, the heuristic verdict of the same message.
C2_FallbackIsHeuristic ==
    remoteFailed => (pc = "returned" /\ result = analyzeHeuristically(message))

C2_Witness ==
    /\ remote = "resolved"
    /\ response = R_missing_level
    /\ message = MSG_URGENT_BITLY
    /\ pc = "returned"
    /\ result.riskScore = JNum(80)
    /\ result.riskLevel = JStr("high")

\* C3: without a credential analyzeMessage makes no remote call, returns exactly the
\* heuristic verdict of the message, and logs a warning, not an error.
C3_NoCredential ==
    GEMINI_API_KEY = ""
      => /\ remoteCalls = 0
         /\ remote = "none"
         /\ pc \in { "idle", "returned" }
         /\ pc = "returned"
              => /\ result = analyzeHeuristically(message)
                 /\ console = << "warn" >>

C3_Witness ==
    /\ GEMINI_API_KEY = ""
    /\ pc = "returned"
    /\ message = MSG_URGENT_BITLY
    /\ remoteCalls = 0
    /\ result.riskScore = JNum(80)

\* C4: with a credential every request makes exactly one remote attempt: one call is
\* in flight while the request waits, a request that has an outcome of its call never
\* waits again, and a request that returned made exactly one call.
C4_OneRemoteAttempt ==
    /\ remoteCalls <= 1
    /\ pc = "awaiting" => (remote = "pending" /\ remoteCalls = 1)
    /\ (GEMINI_API_KEY # "" /\ pc = "returned") => remoteCalls = 1
    /\ remote \in { "rejected", "resolved" } => pc = "returned"

C4_Witness ==
    /\ GEMINI_API_KEY # ""
    /\ remote = "rejected"
    /\ pc = "returned"
    /\ path = "heuristic"
    /\ remoteCalls = 1

\* The response passes the code's validation: it parses to an object with a numeric
\* riskScore and a truthy riskLevel
parsedResponse == JSONparse(trim(stripFences(response)))

passesValidation ==
    /\ parsedResponse.ok
    /\ parsedResponse.value.t = "object"
    /\ isNumber(getField(parsedResponse.value, "riskScore"))
    /\ truthy(getField(parsedResponse.value, "riskLevel"))

\* C5: when the response passes validation, analyzeMessage returns the parsed object
\* unchanged, runs no heuristic analysis, and keeps the reported riskLevel even where
\* it is not the level of the reported riskScore.
C5_RemoteVerdictUnchanged ==
    (remote = "resolved" /\ passesValidation)
      => /\ pc = "returned"
         /\ path = "remote"
         /\ result = parsedResponse.value.obj
         /\ heuristicCalls = 0
         /\ response = R_level_mismatch
              => (result.riskScore = JNum(10) /\ result.riskLevel = JStr("high"))

C5_Witness ==
    /\ remote = "resolved"
    /\ response = R_level_mismatch
    /\ pc = "returned"
    /\ path = "remote"
    /\ result.riskLevel = JStr("high")
    /\ heuristicCalls = 0

\* A JS number v is at most the integer k
atMost(v, k) == IF "den" \in DOMAIN v THEN v.num <= k * v.den ELSE v.num <= k

\* The level the thresholds give a score: low up to 30, medium up to 70, high above
levelByThresholds(v) ==
    IF atMost(v, 30) THEN "low" ELSE IF atMost(v, 70) THEN "medium" ELSE "high"

\* r has a riskLevel that is the threshold level of its numeric riskScore
levelFollowsScore(r) ==
    /\ { "riskScore", "riskLevel" } \subseteq DOMAIN r
    /\ r.riskScore.t = "number"
    /\ r.riskLevel = JStr(levelByThresholds(r.riskScore))

\* C6: every verdict analyzeMessage returns, on either path, has a riskScore that is an
\* integer in 0..100, a riskLevel that is one of low, medium, high, and a non-empty
\* explanation.
C6_VerdictWellFormed ==
    pc = "returned"
      => /\ "riskScore" \in DOMAIN result
         /\ result.riskScore.t = "number"
         /\ "den" \notin DOMAIN result.riskScore
         /\ result.riskScore.num \in 0..100
         /\ "riskLevel" \in DOMAIN result
         /\ result.riskLevel.t = "string"
         /\ result.riskLevel.str \in { "low", "medium", "high" }
         /\ "explanation" \in DOMAIN result
         /\ result.explanation.t = "string"
         /\ Len(result.explanation.str) > 0

\* C7, as claimed: every verdict analyzeMessage returns, whichever path produced it, has
\* the riskLevel the thresholds give its riskScore.
C7_LevelFollowsScoreOnEveryPath ==
    pc = "returned" => levelFollowsScore(result)

\* C7, amended: every verdict returned on the heuristic path (no credential, or the
\* fallback after a failed remote attempt) has the riskLevel the thresholds give its
\* riskScore; a verdict of the remote path carries the riskLevel the service reported.
C7_LevelFollowsScoreOnHeuristicPath ==
    /\ (pc = "returned" /\ path = "heuristic") => levelFollowsScore(result)
    /\ (pc = "returned" /\ path = "remote")
          => result.riskLevel = getField(parsedResponse.value, "riskLevel")

C7_Witness ==
    /\ pc = "returned"
    /\ path = "heuristic"
    /\ remote = "rejected"
    /\ result.riskScore = JNum(30)
    /\ result.riskLevel = JStr("low")

\* C8: on the heuristic path the riskLevel is derived from the final riskScore (the
\* one reported, after the cap and the leniency step): low up to 30, medium from 31 to
\* 70, high from 71; so 30 is low, 31 medium, 70 medium and 71 high.
C8_HeuristicLevelThresholds ==
    /\ riskLevelOf(30) = "low"
    /\ riskLevelOf(31) = "medium"
    /\ riskLevelOf(70) = "medium"
    /\ riskLevelOf(71) = "high"
    /\ (pc = "returned" /\ path = "heuristic")
          => LET riskScore == result.riskScore.num
                 riskLevel == result.riskLevel.str
             IN  /\ riskScore = finalScore(scan(message), message)
                 /\ riskScore <= 30 => riskLevel = "low"
                 /\ (riskScore >= 31 /\ riskScore <= 70) => riskLevel = "medium"
                 /\ riskScore >= 71 => riskLevel = "high"

C8_Witness ==
    /\ pc = "returned"
    /\ path = "heuristic"
    /\ result.riskScore = JNum(70)
    /\ result.riskLevel = JStr("medium")

\* C9: the heuristic riskScore is an integer in 0..100 for every message, also where
\* the sum of the signals is far above 100.
C9_HeuristicScoreInRange ==
    (pc = "returned" /\ path = "heuristic")
      => /\ result.riskScore.t = "number"
         /\ "den" \notin DOMAIN result.riskScore
         /\ result.riskScore.num >= 0
         /\ result.riskScore.num <= 100

C9_Witness ==
    /\ pc = "returned"
    /\ path = "heuristic"
    /\ message = MSG_EVERYTHING
    /\ scan(message).riskScore = 400
    /\ result.riskScore = JNum(100)

\* The catalog's keywords as (category, keyword) index pairs, in catalog order
catalogEntries ==
    LET entriesOf(c) == [k \in 1..Len(SCAM_PATTERNS[c].keywords) |-> [c |-> c, k |-> k]]
        RECURSIVE upTo(_)
        upTo(c) == IF c = 0 THEN << >> ELSE upTo(c - 1) \o entriesOf(c)
    IN  upTo(Len(SCAM_PATTERNS))

keywordAt(e) == SCAM_PATTERNS[e.c].keywords[e.k]

\* The phrases detected in a message, in first-detected order: per category in catalog
\* order, its first three matching keywords in keyword-list order
detectedPhrases(msg) ==
    LET lower == toLowerCase(msg)
        matches(c, k) == includes(lower, SCAM_PATTERNS[c].keywords[k])
        kept(e) == /\ matches(e.c, e.k)
                   /\ Cardinality({ j \in 1..(e.k - 1) : matches(e.c, j) }) < 3
        entries == SelectSeq(catalogEntries, kept)
    IN  [i \in 1..Len(entries) |-> keywordAt(entries[i])]

\* C10: in every heuristic verdict suspiciousPhrases has at most 8 entries, no entry
\* twice, and is the detected phrases in first-detected order, cut after the first 8.
C10_SuspiciousPhrases ==
    (pc = "returned" /\ path = "heuristic")
      => LET phrases  == result.suspiciousPhrases.arr
             detected == detectedPhrases(message)
         IN  /\ Len(phrases) <= 8
             /\ \A i, j \in 1..Len(phrases) : i # j => phrases[i] # phrases[j]
             /\ Len(phrases) = (IF Len(detected) > 8 THEN 8 ELSE Len(detected))
             /\ \A i \in 1..Len(phrases) : phrases[i] = detected[i]

C10_Witness ==
    /\ pc = "returned"
    /\ path = "heuristic"
    /\ message = MSG_EVERYTHING
    /\ Len(detectedPhrases(message)) = 15
    /\ Len(result.suspiciousPhrases.arr) = 8

\* ---- Properties of the heuristic verdict, by the signals of the message

heuristicReturned == pc = "returned" /\ path = "heuristic"

\* How many keywords of the catalog occur in the message
keywordMatches(msg) ==
    LET lower == toLowerCase(msg)
    IN  Cardinality({ i \in 1..Len(catalogEntries) :
                        includes(lower, keywordAt(catalogEntries[i])) })

\* A sensitive-information keyword occurs in the message
sensitiveMatch(msg) ==
    LET lower == toLowerCase(msg)
    IN  \E i \in 1..Len(personalInfoKeywords) : includes(lower, personalInfoKeywords[i])

formattingAnomaly(msg) ==
    hasMultipleExclamations(msg) \/ hasAllCaps(msg) \/ hasPoorSpacing(msg)

isCleanVerdict(r) ==
    /\ r.riskScore = JNum(0)
    /\ r.riskLevel = JStr("low")
    /\ r.patterns = JArr(<< NO_PATTERNS >>)

C12_SingleKeyword ==
    (heuristicReturned
       /\ keywordMatches(message) = 1 /\ ~sensitiveMatch(message)
       /\ ~formattingAnomaly(message)
       /\ ~hasShortenedLinks(message) /\ ~hasLinks(message))
      => /\ result.riskScore = JNum(20)
         /\ result.riskLevel = JStr("low")
         /\ \E i \in 1..Len(catalogEntries) :
               /\ includes(toLowerCase(message), keywordAt(catalogEntries[i]))
               /\ result.patterns = JArr(<< SCAM_PATTERNS[catalogEntries[i].c].description >>)
               /\ result.suspiciousPhrases = JArr(<< keywordAt(catalogEntries[i]) >>)

C12_Witness ==
    /\ heuristicReturned
    /\ message = MSG_WINNER_50
    /\ Len(message) = 50
    /\ keywordMatches(message) = 1
    /\ result.riskScore = JNum(20)
    /\ result.patterns = JArr(<< prizes_description >>)

\* ---- The remote path

\* The responses that are, inside fences or not, one JSON object with a numeric
\* riskScore and a non-empty riskLevel
WellFormedResponses ==
    { R_valid, R_fenced, R_bare_fence, R_level_mismatch, R_out_of_range, R_fraction,
      R_empty_explanation, R_duplicate_key }

\* The text has the member "key": v
writtenIn(text, key, v) ==
    \E i \in 1..Len(text) :
        /\ i + 3 <= Len(text)
        /\ SubSeq(text, i, i + 3) = MEMBER(key, v)

\* C14: a request ends on the remote path only when the response, fences stripped, is
\* one JSON object with a numeric riskScore and a riskLevel, and then every field of
\* the verdict is a member written in the response and no heuristic analysis ran; a
\* response that does not parse or lacks one of the two fields makes the remote attempt
\* fail: an error is logged and the verdict comes from the fallback, not from the
\* remote path.
C14_RemoteVerdictOnlyFromResponse ==
    /\ (pc = "returned" /\ path = "remote")
          => /\ remote = "resolved"
             /\ response \in WellFormedResponses
             /\ result.riskScore.t = "number"
             /\ truthy(result.riskLevel)
             /\ \A field \in DOMAIN result : writtenIn(response, field, result[field])
             /\ heuristicCalls = 0
             /\ console = << >>
    /\ (remote = "resolved" /\ response \in UnparsableResponses \cup IncompleteResponses)
          => /\ path = "heuristic"
             /\ heuristicCalls = 1
             /\ console = << "error" >>

C14_Witness ==
    /\ pc = "returned"
    /\ remote = "resolved"
    /\ response = R_string_score
    /\ path = "heuristic"
    /\ console = << "error" >>

\* "appears to be legitimate"
TXT_APPEARS_LEGITIMATE ==
    << "a", "p", "p", "e", "a", "r", "s", " ", "t", "o", " ", "b", "e", " ", "l", "e", "g",
       "i", "t", "i", "m", "a", "t", "e" >>

\* C17: whenever the heuristic score is 0 the level is low and the explanation is the
\* fixed sentence that says the message appears to be legitimate, not the template of
\* the low level; the lunch message is such a message: no catalog keyword, no link and
\* no sensitive-information keyword.
C17_ZeroScoreExplanation ==
    /\ (heuristicReturned /\ result.riskScore = JNum(0))
          => /\ result.riskLevel = JStr("low")
             /\ result.explanation = JStr(EXPLANATION_ZERO)
             /\ includes(result.explanation.str, TXT_APPEARS_LEGITIMATE)
             /\ ~includes(result.explanation.str, LOW_PREFIX)
    /\ (heuristicReturned /\ message = MSG_LUNCH)
          => /\ keywordMatches(message) = 0
             /\ ~hasLinks(message) /\ ~hasShortenedLinks(message)
             /\ ~sensitiveMatch(message)
             /\ result.riskScore = JNum(0)

C17_Witness ==
    /\ heuristicReturned
    /\ message = MSG_LUNCH
    /\ result.riskScore = JNum(0)
    /\ result.explanation = JStr(EXPLANATION_ZERO)

\* "urgent"
TXT_URGENT ==
    << "u", "r", "g", "e", "n", "t" >>

\* "suspended"
TXT_SUSPENDED ==
    << "s", "u", "s", "p", "e", "n", "d", "e", "d" >>

\* "verify account"
TXT_VERIFY_ACCOUNT ==
    << "v", "e", "r", "i", "f", "y", " ", "a", "c", "c", "o", "u", "n", "t" >>

\* "click here"
TXT_CLICK_HERE ==
    << "c", "l", "i", "c", "k", " ", "h", "e", "r", "e" >>

\* v is an entry of the array a
contains(a, v) == \E i \in 1..Len(a) : a[i] = v

\* What the verdict of the suspended-account message reports
suspendedAccountSignals ==
    /\ contains(result.suspiciousPhrases.arr, TXT_URGENT)
    /\ contains(result.suspiciousPhrases.arr, TXT_SUSPENDED)
    /\ contains(result.suspiciousPhrases.arr, TXT_VERIFY_ACCOUNT)
    /\ contains(result.suspiciousPhrases.arr, TXT_CLICK_HERE)
    /\ contains(result.patterns.arr, urgentLanguage_description)
    /\ contains(result.patterns.arr, impersonation_description)
    /\ contains(result.patterns.arr, SHORTENED_URLS)
    /\ contains(result.patterns.arr, POOR_GRAMMAR)
    /\ result.riskLevel = JStr("high")

\* C18, as claimed: the heuristic verdict of the suspended-account message has the
\* phrases urgent, suspended, verify account and click here, the patterns of urgent
\* language, impersonation, shortened URLs and formatting, level high, and a score that
\* the cap holds at or near 100 (90 or more).
C18_SuspendedAccountClamped ==
    (heuristicReturned /\ message = MSG_URGENT_BITLY)
      => /\ suspendedAccountSignals
         /\ ~atMost(result.riskScore, 89)

\* C18, amended: the same phrases, patterns and level, with score exactly 80, the sum
\* of 25 + 25 + 10 + 20, which the cap of 100 leaves as it is.
C18_SuspendedAccountScore80 ==
    (heuristicReturned /\ message = MSG_URGENT_BITLY)
      => /\ suspendedAccountSignals
         /\ result.riskScore = JNum(80)
         /\ scan(message).riskScore = 80
         /\ Len(result.patterns.arr) = 4
         /\ Len(result.suspiciousPhrases.arr) = 4

C18_Witness ==
    /\ heuristicReturned
    /\ message = MSG_URGENT_BITLY
    /\ hasMultipleExclamations(message) /\ hasShortenedLinks(message)
    /\ result.riskScore = JNum(80)
    /\ result.riskLevel = JStr("high")

\* ---- The loop over the catalog

\* How many keywords of category c occur in the lower-cased message
categoryMatches(lower, c) ==
    Cardinality({ k \in 1..Len(SCAM_PATTERNS[c].keywords) :
                    includes(lower, SCAM_PATTERNS[c].keywords[k]) })

\* C20: in the heuristic scorer every catalog category with n >= 1 keywords in the
\* message adds exactly 15 + 5 * n to the running score, n counting all its matching
\* keywords and not only the at most three it reports as phrases, and adds its
\* description once to the patterns; a category with no keyword in the message adds
\* nothing. So the loop ends with the sum of 15 + 5 * n over the categories that
\* match, with their descriptions in catalog order, and the verdict's patterns begin
\* with these.
C20_CategoryContribution ==
    heuristicReturned
      => LET lower == toLowerCase(message)
             N     == Len(SCAM_PATTERNS)
             n     == [c \in 1..N |-> categoryMatches(lower, c)]
             RECURSIVE score(_), described(_), reported(_)
             score(c) == IF c = 0 THEN 0
                         ELSE score(c - 1) + (IF n[c] >= 1 THEN 15 + 5 * n[c] ELSE 0)
             described(c) == IF c = 0 THEN << >>
                             ELSE described(c - 1)
                                  \o (IF n[c] >= 1 THEN << SCAM_PATTERNS[c].description >>
                                      ELSE << >>)
             reported(c) == IF c = 0 THEN 0
                            ELSE reported(c - 1) + (IF n[c] > 3 THEN 3 ELSE n[c])
             loop == patternLoop(lower, N)
         IN  /\ loop.riskScore = score(N)
             /\ loop.detectedPatterns = described(N)
             /\ Len(loop.suspiciousPhrases) = reported(N)
             /\ Len(described(N)) > 0
                   => /\ Len(result.patterns.arr) >= Len(described(N))
                      /\ SubSeq(result.patterns.arr, 1, Len(described(N))) = described(N)

C20_Witness ==
    /\ heuristicReturned
    /\ message = MSG_ALL_URGENT
    /\ categoryMatches(toLowerCase(message), 1) = 12
    /\ result.riskScore = JNum(75)
    /\ Len(result.suspiciousPhrases.arr) = 3
    /\ result.patterns = JArr(<< urgentLanguage_description >>)

\* ---- The POST handler (src/app/api/analyze/route.ts)

RATE_LIMIT_WINDOW == 60 * 1000

MAX_REQUESTS_PER_WINDOW == 10

\* The longest message the handler lets through (line 82)
MAX_MESSAGE_LENGTH == 10000

\* "unknown"
UNKNOWN ==
    << "u", "n", "k", "n", "o", "w", "n" >>

\* request.headers.get("x-forwarded-for") || "unknown" (line 16): the header is null
\* when the request has none
ipOf(header) == IF truthy(header) THEN header.str ELSE UNKNOWN

\* countRequest that opens a new window already at resetTime
countRequest_resetAtBoundary(counts, key, time) ==
    LET userRate == IF key \in DOMAIN counts THEN counts[key]
                    ELSE [count |-> 0, resetTime |-> time + RATE_LIMIT_WINDOW]
    IN  IF time >= userRate.resetTime
        THEN [count |-> 1, resetTime |-> time + RATE_LIMIT_WINDOW]
        ELSE [userRate EXCEPT !.count = @ + 1]

\* countRequest with a window that slides: every request moves resetTime
countRequest_sliding(counts, key, time) ==
    LET userRate == IF key \in DOMAIN counts THEN counts[key]
                    ELSE [count |-> 0, resetTime |-> time + RATE_LIMIT_WINDOW]
    IN  IF time > userRate.resetTime
        THEN [count |-> 1, resetTime |-> time + RATE_LIMIT_WINDOW]
        ELSE [count |-> userRate.count + 1, resetTime |-> time + RATE_LIMIT_WINDOW]

\* Lines 18-25: the entry of this ip after one more request at this time
countRequest(counts, key, time) ==
    LET userRate == IF key \in DOMAIN counts THEN counts[key]
                    ELSE [count |-> 0, resetTime |-> time + RATE_LIMIT_WINDOW]
    IN  IF time > userRate.resetTime
        THEN [count |-> 1, resetTime |-> time + RATE_LIMIT_WINDOW]
        ELSE [userRate EXCEPT !.count = @ + 1]

\* ipRequestCounts.set(ip, userRate) (line 27)
mapSet(counts, key, value) ==
    [k \in DOMAIN counts \cup { key } |-> IF k = key THEN value ELSE counts[k]]

\* History of the limiter's decisions, kept apart from its Map: a caller's window is
\* opened by its first request and by its first request later than RATE_LIMIT_WINDOW
\* after the window's opening; the request at this time is counted in the caller's
\* window, as passed unless it was limited
observe(seen, key, time, limited) ==
    LET known   == key \in DOMAIN seen
        current == IF known /\ time <= seen[key].opened + RATE_LIMIT_WINDOW
                   THEN seen[key]
                   ELSE [opened |-> time, arrivals |-> 0, passed |-> 0,
                         rejectedAt |-> IF known THEN seen[key].rejectedAt ELSE -1]
    IN  mapSet(seen, key,
               [current EXCEPT !.arrivals = @ + 1,
                               !.passed = @ + (IF limited THEN 0 ELSE 1),
                               !.rejectedAt = IF limited THEN time ELSE @])

\* message.trim().length (line 70): the length without the whitespace at both ends
trimLength(str) ==
    LET white(i) == str[i] \in WhiteSpace
        leading  == CHOOSE n \in 0..Len(str) :
                        /\ \A j \in 1..n : white(j)
                        /\ n < Len(str) => ~white(n + 1)
        trailing == CHOOSE n \in 0..Len(str) :
                        /\ \A j \in 1..n : white(Len(str) + 1 - j)
                        /\ n < Len(str) => ~white(Len(str) - n)
    IN  IF leading = Len(str) THEN 0 ELSE Len(str) - leading - trailing

\* No call of analyzeMessage was made; the handler logged this
noCall(logged) ==
    [pc |-> "idle", result |-> NoResult, path |-> "none",
     heuristicCalls |-> 0, remoteCalls |-> 0, console |-> logged]

\* A response of the handler that ends the request without an analysis
respond(status, code, logged) ==
    [route |-> "responded", httpStatus |-> status, httpCode |-> code,
     message |-> << >>, call |-> noCall(logged)]

\* Lines 41-94: from the body's text to a response, or to the call of analyzeMessage
\* and its first suspension point. Destructuring null (line 55) throws a TypeError,
\* which the outer catch (line 98) logs twice and answers with 500.
afterBody(key, text) ==
    LET parsed == JSONparse(text)
    IN  IF ~parsed.ok THEN respond(400, "INVALID_JSON", << >>)
        ELSE IF propertyReadThrows(parsed.value)
        THEN respond(500, "INTERNAL_SERVER_ERROR", << "error", "error" >>)
        ELSE LET msg == getField(parsed.value, "message")
             IN  IF ~truthy(msg) \/ msg.t # "string"
                 THEN respond(400, "INVALID_MESSAGE_TYPE", << >>)
                 ELSE IF trimLength(msg.str) = 0
                 THEN respond(400, "EMPTY_MESSAGE", << >>)
                 ELSE IF Len(msg.str) > MAX_MESSAGE_LENGTH
                 THEN respond(400, "MESSAGE_TOO_LONG", << >>)
                 ELSE [route |-> "analyzing", httpStatus |-> 0, httpCode |-> "",
                       message |-> msg.str, call |-> enter(key, msg.str)]

\* ---- Requests

\* "203.0.113.7"
IP_A ==
    << "2", "0", "3", ".", "0", ".", "1", "1", "3", ".", "7" >>

\* The x-forwarded-for header: none, empty, an address
Headers == { JNull, JStr(<< >>), JStr(IP_A) }

\* How long after the previous request a request arrives, in ms
Delays == { 0, RATE_LIMIT_WINDOW, RATE_LIMIT_WINDOW + 1 }

\* The last instant a request arrives at
LastInstant == RATE_LIMIT_WINDOW + 1

\* How many requests the limiter's entries count together at most
MaxPosts == 11

totalCount(counts) ==
    LET RECURSIVE sum(_)
        sum(K) == IF K = {} THEN 0
                  ELSE LET k == CHOOSE x \in K : TRUE IN counts[k].count + sum(K \ { k })
    IN  sum(DOMAIN counts)

\* JSON.stringify({ message }) (page.tsx, line 331)
JSONstringify(m) == << LBRACE, LIT(JStr("message")), COLON, LIT(JStr(m)), RBRACE >>

B_lunch == JSONstringify(MSG_LUNCH)

B_urgent == object(MEMBER("message", JStr(MSG_URGENT_BITLY)))

\* not JSON: a member list that ends in a comma
B_trailing_comma == object(MEMBER("message", JStr(MSG_LUNCH)) \o << COMMA >>)

\* an empty body
B_nothing == << >>

\* the JSON value null
B_null == << LIT(JNull) >>

\* a JSON number, a JSON string, a JSON array: values without a message property
B_number == << LIT(JNum(5)) >>

B_string == << LIT(JStr(MSG_LUNCH)) >>

B_array == << LIT(JArr(<< MSG_LUNCH >>)) >>

\* an object without message
B_no_message == object(MEMBER("text", JStr(MSG_LUNCH)))

\* message is null, a number, an array
B_null_message == object(MEMBER("message", JNull))

B_number_message == object(MEMBER("message", JNum(42)))

B_array_message == object(MEMBER("message", JArr(<< MSG_LUNCH >>)))

\* message is the empty string
B_empty_message == JSONstringify(<< >>)

\* message is blanks, tabs and line breaks only
B_blank_message == JSONstringify(<< " ", "\t", "\n", " " >>)

\* message is one character longer than allowed
B_too_long == JSONstringify([i \in 1..(MAX_MESSAGE_LENGTH + 1) |-> "a"])

Bodies ==
    { B_lunch, B_urgent, B_trailing_comma, B_nothing, B_null, B_number, B_string, B_array,
      B_no_message, B_null_message, B_number_message, B_array_message, B_empty_message,
      B_blank_message, B_too_long }

\* What the remote service answers to requests that come through the handler
RouteResponses == { R_valid, R_prose, R_missing_level }

\* ---- The handler's steps

\* Lines 14-43, the rate limiter and the start of reading the body. The model follows
\* one POST at a time: the next one is taken up when the last one is over.
receive(header, text, delay) ==
    /\ route = "idle"
    /\ pc = "idle"
    /\ now + delay <= LastInstant
    /\ totalCount(ipRequestCounts) < MaxPosts
    /\ LET key      == ipOf(header)
           userRate == countRequest(ipRequestCounts, key, now + delay)
       IN  /\ now' = now + delay
           /\ ip' = key
           /\ ipRequestCounts' = mapSet(ipRequestCounts, key, userRate)
           /\ windows' = observe(windows, key, now + delay,
                                 userRate.count > MAX_REQUESTS_PER_WINDOW)
           /\ IF userRate.count > MAX_REQUESTS_PER_WINDOW
              THEN /\ route' = "responded"
                   /\ httpStatus' = 429
                   /\ httpCode' = "RATE_LIMIT_EXCEEDED"
              ELSE /\ route' = "parsing"
                   /\ httpStatus' = 0
                   /\ httpCode' = ""
    /\ body' = text
    /\ UNCHANGED << GEMINI_API_KEY, coreVars, peers, posts >>

\* A POST arrives from some client
POST(header, text, delay) == receive(header, text, delay) /\ UNCHANGED fetch

\* request.json() settles: lines 43-94, up to the first suspension point of
\* analyzeMessage when the message is let through
BodyRead ==
    /\ route = "parsing"
    /\ LET r == afterBody(GEMINI_API_KEY, body)
       IN  /\ route' = r.route
           /\ httpStatus' = r.httpStatus
           /\ httpCode' = r.httpCode
           /\ message' = r.message
           /\ pc' = r.call.pc
           /\ result' = r.call.result
           /\ path' = r.call.path
           /\ heuristicCalls' = r.call.heuristicCalls
           /\ remoteCalls' = r.call.remoteCalls
           /\ console' = r.call.console
           /\ remote' = (IF r.call.remoteCalls > 0 THEN "pending" ELSE "none")
    /\ response' = << >>
    /\ UNCHANGED << GEMINI_API_KEY, ipRequestCounts, now, ip, body, fetch, peers, posts, windows >>

\* await analyzeMessage(message) completes: line 97, or the catch of line 98 had it
\* thrown
Respond ==
    /\ route = "analyzing"
    /\ pc \in { "returned", "threw" }
    /\ route' = "responded"
    /\ httpStatus' = (IF pc = "returned" THEN 200 ELSE 500)
    /\ httpCode' = (IF pc = "returned" THEN "" ELSE "INTERNAL_SERVER_ERROR")
    /\ UNCHANGED << GEMINI_API_KEY, coreVars, ipRequestCounts, now, ip, body, fetch, peers, posts, windows >>

\* The response is sent and the request is over: only the limiter's Map outlives it
Finish ==
    /\ route = "responded"
    /\ fetch # "pending"
    /\ route' = "idle"
    /\ ip' = << >>
    /\ body' = << >>
    /\ httpStatus' = 0
    /\ httpCode' = ""
    /\ pc' = "idle"
    /\ message' = << >>
    /\ remote' = "none"
    /\ response' = << >>
    /\ result' = NoResult
    /\ path' = "none"
    /\ remoteCalls' = 0
    /\ heuristicCalls' = 0
    /\ console' = << >>
    /\ UNCHANGED << GEMINI_API_KEY, ipRequestCounts, now, fetch, peers, posts, windows >>

NextRoute ==
    \/ \E header \in Headers, text \in Bodies, delay \in Delays : POST(header, text, delay)
    \/ BodyRead
    \/ GenerateContentRejects
    \/ \E text \in RouteResponses : GenerateContentResolves(text)
    \/ Respond
    \/ Finish

SpecRoute == Init /\ [][NextRoute]_vars

\* ---- Properties of the POST handler

\* The bodies that are JSON
JsonBodies ==
    Bodies \ { B_trailing_comma, B_nothing }

\* The bodies whose message the handler is to let through
AcceptableBodies == { B_lunch, B_urgent }

analysisStarted == pc # "idle" \/ heuristicCalls + remoteCalls > 0

rateLimited ==
    /\ ip \in DOMAIN ipRequestCounts
    /\ ipRequestCounts[ip].count > MAX_REQUESTS_PER_WINDOW

\* C19: analyzeMessage is called only for a request that was not rate-limited, whose
\* body is JSON and whose message is a string that is not empty, not only whitespace
\* and at most 10,000 characters long; every other request is answered with status 429
\* or 400, and no analysis is started for it.
C19_OnlyValidRequestsAnalysed ==
    /\ analysisStarted
          => /\ route \in { "analyzing", "responded" }
             /\ ~rateLimited
             /\ body \in JsonBodies \cap AcceptableBodies
             /\ message = getField(JSONparse(body).value, "message").str
             /\ Len(message) <= MAX_MESSAGE_LENGTH
             /\ \E i \in 1..Len(message) : message[i] \notin WhiteSpace
    /\ (route = "responded" /\ (rateLimited \/ body \notin AcceptableBodies))
          => /\ httpStatus \in { 429, 400 }
             /\ ~analysisStarted

\* ---- The page (src/app/page.tsx, handleAnalyze)

\* What the user has typed when pressing the button
PageMessages == { MSG_LUNCH, MSG_URGENT_BITLY }

\* The proxy in front of the server names the browser's address
PageHeaders == { JStr(IP_A) }

\* The button is pressed at once, or after the limiter's window has passed
PageDelays == { 0, RATE_LIMIT_WINDOW + 1 }

\* handleAnalyze, lines 313-333: a message that is not blank is sent, with a timer
\* that aborts the fetch; the request reaches the handler
HandleAnalyze(header, m, delay) ==
    /\ fetch # "pending"
    /\ trimLength(m) > 0
    /\ fetch' = "pending"
    /\ receive(header, JSONstringify(m), delay)

\* Line 324: setTimeout(() => controller.abort(), 30000) fires. The fetch rejects with
\* an AbortError; the handler on the server does not read request.signal and goes on.
TimerFires ==
    /\ fetch = "pending"
    /\ fetch' = "aborted"
    /\ UNCHANGED << GEMINI_API_KEY, coreVars, routeVars, peers, posts, windows >>

\* Lines 335-371: the response arrives before the timer fires; response.ok is a status
\* from 200 to 299
FetchSettles ==
    /\ fetch = "pending"
    /\ route = "responded"
    /\ fetch' = (IF httpStatus >= 200 /\ httpStatus <= 299 THEN "fulfilled" ELSE "failed")
    /\ UNCHANGED << GEMINI_API_KEY, coreVars, routeVars, peers, posts, windows >>

NextPage ==
    \/ \E header \in PageHeaders, m \in PageMessages, delay \in PageDelays :
          HandleAnalyze(header, m, delay)
    \/ TimerFires
    \/ FetchSettles
    \/ BodyRead
    \/ GenerateContentRejects
    \/ \E text \in RouteResponses : GenerateContentResolves(text)
    \/ Respond
    \/ Finish

\* WF_vars(BodyRead), written with the condition that enables BodyRead: the handler
\* is reading a body. Every BodyRead step changes route.
BodyReadFair == []<>(route # "parsing") \/ []<><<BodyRead>>_vars

\* What the program itself does is done in the end: the event loop runs every
\* continuation that is ready and every timer that is due. Nothing makes the remote
\* service answer, and nothing makes a user press the button.
SpecPage ==
    /\ Init
    /\ [][NextPage]_vars
    /\ BodyReadFair
    /\ WF_vars(Respond)
    /\ WF_vars(Finish)
    /\ WF_vars(TimerFires)
    /\ WF_vars(FetchSettles)

\* C15: every analyzeMessage call that waits for the remote service returns a verdict
\* in the end, even when the remote service never answers.
C15_EventuallyCompletes == (pc = "awaiting") ~> (pc = "returned")

\* ---- Concurrent calls of analyzeMessage. On the server every call has its own
\* message, promise and locals; the calls share the process environment and the
\* catalog, which none of them writes.

\* A call as it begins: analyzeMessage(m) up to its first suspension point or its end
begun(key, m) ==
    LET c == enter(key, m)
    IN  [pc |-> c.pc, message |-> m,
         remote |-> (IF c.remoteCalls > 0 THEN "pending" ELSE "none"),
         response |-> << >>, result |-> c.result, path |-> c.path,
         remoteCalls |-> c.remoteCalls, heuristicCalls |-> c.heuristicCalls,
         console |-> c.console]

\* A call after the rest of it, taken from catchBlock or afterResponse
continued(r, c, outcome, text) ==
    [r EXCEPT !.pc = c.pc, !.remote = outcome, !.response = text,
              !.result = c.result, !.path = c.path,
              !.remoteCalls = @ + c.remoteCalls,
              !.heuristicCalls = @ + c.heuristicCalls,
              !.console = @ \o c.console]

PeerCall(p, m) ==
    /\ peers[p].pc = "idle"
    /\ peers' = [peers EXCEPT ![p] = begun(GEMINI_API_KEY, m)]
    /\ UNCHANGED << GEMINI_API_KEY, coreVars, routeVars, fetch, posts, windows >>

\* PeerRejects with the message held in a place that all calls share
PeerRejects_sharedMessage(p) ==
    /\ peers[p].pc = "awaiting"
    /\ peers' = [peers EXCEPT ![p] = continued(@, catchBlock(message), "rejected", << >>)]
    /\ UNCHANGED << GEMINI_API_KEY, coreVars, routeVars, fetch, posts, windows >>

\* The generateContent promise of call p rejects
PeerRejects(p) ==
    /\ peers[p].pc = "awaiting"
    /\ peers' = [peers EXCEPT
                    ![p] = continued(@, catchBlock(peers[p].message), "rejected", << >>)]
    /\ UNCHANGED << GEMINI_API_KEY, coreVars, routeVars, fetch, posts, windows >>

\* The generateContent promise of call p resolves with this text
PeerResolves(p, text) ==
    /\ peers[p].pc = "awaiting"
    /\ peers' = [peers EXCEPT
                    ![p] = continued(@, afterResponse(peers[p].message, text),
                                     "resolved", text)]
    /\ UNCHANGED << GEMINI_API_KEY, coreVars, routeVars, fetch, posts, windows >>

\* The caller of call p has its verdict
PeerSettle(p) ==
    /\ peers[p].pc \in { "returned", "threw" }
    /\ peers' = [peers EXCEPT ![p] = IdleRequest]
    /\ UNCHANGED << GEMINI_API_KEY, coreVars, routeVars, fetch, posts, windows >>

ConcMessages == { MSG_LUNCH, MSG_URGENT_BITLY, MSG_WINNER_50 }

ConcResponses == { R_valid, R_level_mismatch, R_prose }

NextConc ==
    \/ \E m \in ConcMessages : Call(m)
    \/ GenerateContentRejects
    \/ \E text \in ConcResponses : GenerateContentResolves(text)
    \/ Settle
    \/ \E p \in 1..MaxPeers, m \in ConcMessages : PeerCall(p, m)
    \/ \E p \in 1..MaxPeers : PeerRejects(p)
    \/ \E p \in 1..MaxPeers, text \in ConcResponses : PeerResolves(p, text)
    \/ \E p \in 1..MaxPeers : PeerSettle(p)

SpecConc == Init /\ [][NextConc]_vars

\* The call whose state the variables of the core hold
self ==
    [pc |-> pc, message |-> message, remote |-> remote, response |-> response,
     result |-> result, path |-> path, remoteCalls |-> remoteCalls,
     heuristicCalls |-> heuristicCalls, console |-> console]

\* The verdict of a call that runs alone with this message and this outcome of its
\* remote call
aloneVerdict(key, m, outcome, text) ==
    IF key = "" \/ outcome = "rejected" \/ text \in UnparsableResponses \cup IncompleteResponses
    THEN analyzeHeuristically(m)
    ELSE JSONparse(trim(stripFences(text))).value.obj

\* The call r is where it would be had it run alone
asAlone(r) ==
    /\ r.pc \in { "idle", "awaiting", "returned" }
    /\ r.pc = "idle" => r = IdleRequest
    /\ r.pc = "awaiting"
          => /\ GEMINI_API_KEY # ""
             /\ r.remote = "pending"
             /\ r.result = NoResult
             /\ r.remoteCalls = 1
    /\ r.pc = "returned"
          => /\ r.result = aloneVerdict(GEMINI_API_KEY, r.message, r.remote, r.response)
             /\ r.remoteCalls = (IF GEMINI_API_KEY = "" THEN 0 ELSE 1)
             /\ r.heuristicCalls = (IF r.path = "heuristic" THEN 1 ELSE 0)
             /\ r.remote = (IF GEMINI_API_KEY = "" THEN "none" ELSE r.remote)
             /\ r.remote # "pending"

\* C16: in every interleaving of concurrent analyzeMessage calls, the verdict of each
\* call is the verdict it would have alone with its own message and the outcome of its
\* own remote call, whatever the other calls were given and however they ended.
C16_CallsDoNotInterfere ==
    /\ asAlone(self)
    /\ \A p \in 1..MaxPeers : asAlone(peers[p])

C16_Witness ==
    /\ pc = "returned"
    /\ remote = "rejected"
    /\ message = MSG_URGENT_BITLY
    /\ result.riskScore = JNum(80)
    /\ peers[1].pc = "returned"
    /\ peers[1].message = MSG_LUNCH
    /\ peers[1].remote = "rejected"
    /\ peers[1].result.riskScore = JNum(0)

\* ---- The heuristic scorer alone: calls that are answered by it

NextHeuristic ==
    \/ \E m \in Messages : Call(m)
    \/ GenerateContentRejects
    \/ Settle

SpecHeuristic == Init /\ [][NextHeuristic]_vars

\* How often v occurs in the array a
occurrences(a, v) == Cardinality({ i \in 1..Len(a) : a[i] = v })

\* C21: the link step of the heuristic scorer adds at most one link pattern. A message
\* with a shortened link (bit.ly, tinyurl, goo.gl) gets "Shortened or suspicious URLs"
\* and 20 points whatever else matched; otherwise a message with a link (http://,
\* https://, www.) gets "Contains links (verify before clicking)" and 10 points only
\* if a category or a formatting pattern was detected before the step; a link in a
\* message with nothing detected before the step adds neither pattern nor points.
C21_LinkStep ==
    heuristicReturned
      => LET lower     == toLowerCase(message)
             before    == checkFormatting(patternLoop(lower, Len(SCAM_PATTERNS)), message)
             earlier   == keywordMatches(message) > 0 \/ formattingAnomaly(message)
             shortened == hasShortenedLinks(message)
             generic   == ~shortened /\ hasLinks(message) /\ earlier
             points    == IF shortened THEN 20 ELSE IF generic THEN 10 ELSE 0
             added     == IF shortened THEN << SHORTENED_URLS >>
                          ELSE IF generic THEN << CONTAINS_LINKS >> ELSE << >>
             after     == [before EXCEPT !.detectedPatterns = @ \o added,
                                         !.riskScore = @ + points]
             final     == checkPersonalInfo(after, lower)
         IN  /\ occurrences(result.patterns.arr, SHORTENED_URLS)
                  + occurrences(result.patterns.arr, CONTAINS_LINKS) <= 1
             /\ occurrences(result.patterns.arr, SHORTENED_URLS) = 1 <=> shortened
             /\ occurrences(result.patterns.arr, CONTAINS_LINKS) = 1 <=> generic
             /\ result.patterns = JArr(patternsOf(final.detectedPatterns))
             /\ result.riskScore = JNum(finalScore(final, message))

\* "urgent http://x.co ": the link counts because a keyword was matched first
C21_Witness ==
    /\ heuristicReturned
    /\ message = compose({1, 9})
    /\ hasLinks(message) /\ ~hasShortenedLinks(message)
    /\ result.patterns = JArr(<< urgentLanguage_description, CONTAINS_LINKS >>)
    /\ result.riskScore = JNum(30)

\* C22: every heuristic verdict of level high has an explanation that names two
\* matched patterns, the first and the second of the verdict's patterns, in lower case
\* and joined with " and ", between the fixed opening and the fixed closing advice.
C22_HighNamesTwoPatterns ==
    (heuristicReturned /\ result.riskLevel = JStr("high"))
      => /\ Len(result.patterns.arr) >= 2
         /\ result.explanation =
              JStr(HIGH_PREFIX
                   \o toLowerCase(result.patterns.arr[1]) \o AND_SEP
                   \o toLowerCase(result.patterns.arr[2])
                   \o HIGH_SUFFIX)

\* C25: on the heuristic path the final score is 0 exactly when no pattern was matched,
\* which is exactly when the verdict's patterns are the single entry
\* "No scam patterns detected": every increase of the score comes with a pattern entry,
\* so the leniency for short messages never changes the score, and a score other than
\* 0 never comes with that entry.
C25_ZeroScoreIffNoPattern ==
    heuristicReturned
      => LET acc      == scan(message)
             capped   == capScore(acc.riskScore)
             sentinel == result.patterns = JArr(<< NO_PATTERNS >>)
             matched  == \/ keywordMatches(message) > 0
                         \/ formattingAnomaly(message)
                         \/ hasShortenedLinks(message)
                         \/ sensitiveMatch(message)
         IN  /\ result.riskScore = JNum(0) <=> sentinel
             /\ sentinel <=> ~matched
             /\ sentinel <=> Len(acc.detectedPatterns) = 0
             /\ Len(acc.detectedPatterns) = 0 <=> acc.riskScore = 0
             /\ lenient(capped, message, acc.detectedPatterns) = capped
             /\ result.riskScore = JNum(capped)

\* A short message without any signal: the leniency applies and leaves the score at 0
C25_Witness ==
    /\ heuristicReturned
    /\ message = MSG_LUNCH
    /\ Len(message) < 50
    /\ scan(message).detectedPatterns = << >>
    /\ result.riskScore = JNum(0)
    /\ result.patterns = JArr(<< NO_PATTERNS >>)

\* The signals a message sets off: the catalog keywords it contains (by their place in
\* catalogEntries, so per category) and the four signals outside the catalog
signalsOf(msg) ==
    LET lower == toLowerCase(msg)
    IN  [keywords   |-> { i \in 1..Len(catalogEntries) :
                            includes(lower, keywordAt(catalogEntries[i])) },
         formatting |-> formattingAnomaly(msg),
         shortened  |-> hasShortenedLinks(msg),
         link       |-> hasLinks(msg),
         sensitive  |-> sensitiveMatch(msg)]

\* b sets off every signal that a sets off
covers(b, a) ==
    /\ a.keywords \subseteq b.keywords
    /\ a.formatting => b.formatting
    /\ a.shortened => b.shortened
    /\ a.link => b.link
    /\ a.sensitive => b.sensitive

levelRank(level) == IF level = "low" THEN 1 ELSE IF level = "medium" THEN 2 ELSE 3

\* The signals and the heuristic verdict of every message analysed
signalsTable == [ m \in Messages |-> signalsOf(m) ]

verdictTable == [ m \in Messages |-> analyzeHeuristically(m) ]

\* C26: the heuristic score is monotone in the signals: when the message analysed sets
\* off every signal that another message sets off (at least its keywords in every
\* category, and each of the formatting, shortened-link, link and sensitive-information
\* signals it has), its score is at least the other message's score and its level is
\* not lower.
C26_MonotoneInSignals ==
    heuristicReturned
      => \A a \in Messages :
            covers(signalsTable[message], signalsTable[a])
              => /\ verdictTable[a].riskScore.num <= result.riskScore.num
                 /\ levelRank(verdictTable[a].riskLevel.str)
                      <= levelRank(result.riskLevel.str)

\* "urgent bit.ly/x " has every signal of "urgent " and one more, and scores higher
C26_Witness ==
    /\ heuristicReturned
    /\ message = compose({1, 10})
    /\ covers(signalsTable[message], signalsTable[F_urgent])
    /\ ~covers(signalsTable[F_urgent], signalsTable[message])
    /\ verdictTable[F_urgent].riskScore = JNum(20)
    /\ result.riskScore = JNum(40)

\* ---- Concurrent POST requests. Lines 14-38 have no await: the limiter's part of a
\* request runs in one piece, then the request waits for its body (line 43) while other
\* requests arrive. The requests share ipRequestCounts only; ip, now, body and the rest
\* are locals of each request.

\* How many POST requests are in flight together at most
MaxInflight == 2

\* A request right after lines 14-38
arrived(key, text, limited) ==
    [route      |-> IF limited THEN "responded" ELSE "parsing",
     ip         |-> key,
     body       |-> text,
     httpStatus |-> IF limited THEN 429 ELSE 0,
     httpCode   |-> IF limited THEN "RATE_LIMIT_EXCEEDED" ELSE "",
     message    |-> << >>,
     call       |-> noCall(<< >>)]

\* A request after lines 43-94 (see afterBody)
bodyRead(key, r) ==
    LET a == afterBody(key, r.body)
    IN  [r EXCEPT !.route = a.route, !.httpStatus = a.httpStatus, !.httpCode = a.httpCode,
                  !.message = a.message, !.call = a.call]

\* A POST arrives while others are in flight: lines 14-43
PostArrives(header, text, delay) ==
    /\ BagCardinality(posts) < MaxInflight
    /\ now + delay <= LastInstant
    /\ LET key      == ipOf(header)
           userRate == countRequest(ipRequestCounts, key, now + delay)
           limited  == userRate.count > MAX_REQUESTS_PER_WINDOW
       IN  /\ totalCount(mapSet(ipRequestCounts, key, userRate)) <= MaxPosts
           /\ now' = now + delay
           /\ ipRequestCounts' = mapSet(ipRequestCounts, key, userRate)
           /\ windows' = observe(windows, key, now + delay, limited)
           /\ posts' = posts (+) SetToBag({ arrived(key, text, limited) })
    /\ UNCHANGED << GEMINI_API_KEY, coreVars, route, ip, body, httpStatus, httpCode, fetch,
                    peers >>

\* request.json() of request r settles: lines 43-94
PostBodyRead(r) ==
    /\ r \in BagToSet(posts)
    /\ r.route = "parsing"
    /\ posts' = (posts (-) SetToBag({ r })) (+) SetToBag({ bodyRead(GEMINI_API_KEY, r) })
    /\ UNCHANGED << GEMINI_API_KEY, coreVars, routeVars, fetch, peers, windows >>

\* The response of request r is sent and the request is over
PostFinishes(r) ==
    /\ r \in BagToSet(posts)
    /\ r.route = "responded"
    /\ posts' = posts (-) SetToBag({ r })
    /\ UNCHANGED << GEMINI_API_KEY, coreVars, routeVars, fetch, peers, windows >>

\* The x-forwarded-for header of the concurrent requests: none, an address
LimiterHeaders == { JNull, JStr(IP_A) }

\* Their bodies: the handler turns both away before line 94 (400 and 500), so that none
\* of the requests in flight together goes on to analyzeMessage
LimiterBodies == { B_nothing, B_null }

NextLimiter ==
    \/ \E header \in LimiterHeaders, text \in LimiterBodies, delay \in Delays :
          PostArrives(header, text, delay)
    \/ \E r \in BagToSet(posts) : PostBodyRead(r)
    \/ \E r \in BagToSet(posts) : PostFinishes(r)

SpecLimiter == Init /\ [][NextLimiter]_vars

\* C23: for every caller and however the concurrent POST requests interleave, at most
\* 10 requests of the caller pass the limiter within one window, the 60 seconds from
\* the request that opened it: of the requests counted in a window the first 10 pass,
\* the 11th and every later one is answered 429 RATE_LIMIT_EXCEEDED; and the caller's
\* count is the number of its own requests in the window, whatever other callers send.
C23_AtMostTenPerWindow ==
    /\ DOMAIN windows = DOMAIN ipRequestCounts
    /\ \A key \in DOMAIN windows :
          LET w == windows[key]
          IN  /\ w.passed <= 10
              /\ w.passed = (IF w.arrivals <= 10 THEN w.arrivals ELSE 10)
              /\ w.arrivals > 10 => w.rejectedAt >= w.opened
              /\ ipRequestCounts[key].count = w.arrivals
              /\ ipRequestCounts[key].resetTime = w.opened + 60 * 1000
    /\ \A r \in BagToSet(posts) :
          /\ r.httpStatus = 429 <=> r.httpCode = "RATE_LIMIT_EXCEEDED"
          /\ r.httpStatus = 429
                => /\ r.ip \in DOMAIN windows
                   /\ windows[r.ip].rejectedAt >= 0

\* Two requests of one caller in flight together, the 10th of its window, which passed,
\* and the 11th, which was answered 429
C23_Witness ==
    /\ \E key \in DOMAIN windows :
          /\ windows[key].arrivals = 11
          /\ windows[key].passed = 10
          /\ \E r, s \in BagToSet(posts) :
                /\ r.ip = key /\ r.route = "parsing"
                /\ s.ip = key /\ s.httpStatus = 429

\* This step counts a request of this caller
counted(key) ==
    /\ key \in DOMAIN ipRequestCounts'
    /\ key \in DOMAIN ipRequestCounts => ipRequestCounts'[key] # ipRequestCounts[key]

\* The request that arrived with this step passed the limiter
passes == \A r \in BagToSet(posts' (-) posts) : r.route = "parsing" /\ r.httpStatus = 0

\* What every request does to its caller's entry: inside the window (up to resetTime)
\* it adds one to the count, the rejected request too, and leaves resetTime; later than
\* resetTime it opens a new window with count 1 and passes
windowStep(key) ==
    IF key \in DOMAIN ipRequestCounts
    THEN LET old == ipRequestCounts[key]
             new == ipRequestCounts'[key]
         IN  IF now' <= old.resetTime
             THEN /\ new.count = old.count + 1
                  /\ new.resetTime = old.resetTime
                  /\ old.count >= 10 => ~passes
             ELSE /\ new = [count |-> 1, resetTime |-> now' + 60 * 1000]
                  /\ passes
    ELSE /\ ipRequestCounts'[key] = [count |-> 1, resetTime |-> now' + 60 * 1000]
         /\ passes

\* This caller was answered 429 before, more than a minute before the time of this step
retriesLater(key) ==
    /\ key \in DOMAIN windows
    /\ windows[key].rejectedAt >= 0
    /\ now' > windows[key].rejectedAt + 60 * 1000

\* C24, as claimed: the window is fixed. A request inside a window, a rejected one
\* included, adds one to its caller's count and never moves resetTime; once the time is
\* later than resetTime the caller's next request opens a new window with count 1 and
\* passes; and every request of a caller that was answered 429 more than one minute
\* earlier passes.
C24_RetryAlwaysAccepted ==
    [][ \A key \in DOMAIN ipRequestCounts' :
           counted(key) => /\ windowStep(key)
                           /\ retriesLater(key) => passes ]_vars

\* C24, amended: the same, the last part only for the caller's first request after the
\* 429, that is when the last request counted for the caller was that rejected one.
C24_FixedWindow ==
    [][ \A key \in DOMAIN ipRequestCounts' :
           counted(key) => /\ windowStep(key)
                           /\ (retriesLater(key) /\ windows[key].arrivals > 10) => passes
      ]_vars

\* A caller answered 429 at time 0 is back after the window, and its request passed
C24_Witness ==
    \E key \in DOMAIN windows :
       /\ windows[key].rejectedAt = 0
       /\ now = 60 * 1000 + 1
       /\ ipRequestCounts[key] = [count |-> 1, resetTime |-> now + 60 * 1000]
       /\ \E r \in BagToSet(posts) : r.ip = key /\ r.route = "parsing"

====
